---- MODULE Spec2Model ----
(***************************************************************************)
(* DeepTalk front end: the task/calendar data adapter (the mapping between *)
(* backend tasks and calendar events) and the authentication state         *)
(* resolver (GoogleAuth, with its two drafts checkExistingAuth and         *)
(* initializeAuth, hosted by the Index page).                              *)
(*                                                                         *)
(* SpecMap  : the pure mapping functions, applied to every backend task    *)
(*            and every partial event of the bounded input sets.           *)
(* SpecAuth : the resolver as a state machine, one step per stretch of     *)
(*            code between two awaits.                                     *)
(***************************************************************************)
EXTENDS Integers, Sequences, FiniteSets, TLC

VARIABLES
    \* ---- mapping (src/src/components/APIs/d.ts, CalendarContainer) ----
    task,       \* the backend task at hand (BackendTask)
    event,      \* the CalendarEvent at hand, or NoEvent
    request,    \* the write payload built last (CreateTaskRequest), or NoRequest
    form,       \* the task dialog's priority/urgency/status fields, or NoForm
    origin,     \* where `event` came from: "none", "adapter", "container", "user"
    \* ---- authentication resolver (GoogleAuth, Index, authAPI) ----
    localStorage,   \* key -> stored string, or Null
    urlToken,       \* the token query parameter of the page URL, or Null
    now,            \* Date.now(), in ms
    sessionActive,  \* whether the server holds a session for this browser
    draft,          \* which GoogleAuth draft is mounted
    host,           \* "index": GoogleAuth under the Index page; "standalone"
    pc,             \* where the resolver's async function stands
    user,           \* GoogleAuth's user record, or NoUser
    loading,        \* GoogleAuth's loading flag
    error,          \* GoogleAuth's error message, or NoError
    authMethod,     \* GoogleAuth's authMethod ("token", "session", "null")
    isAuthenticated,\* Index's isAuthenticated
    indexUser,      \* Index's user record, or NoUser
    \* ---- history (observation only) ----
    atInit,         \* what the resolver found when the initialization started
    requests,       \* the verification requests of the current initialization
    apiSignOut,     \* authAPI.signOut: "idle", or "pending" on its logout request
    signedOut,      \* "none", or the sign-out handler that completed last
    loads,          \* times the page was loaded again
    \* ---- calendar views (useCalendarEvents and the components over it) ----
    component,      \* the mounted view: "AdaptedCalendarContainer" (over the
                    \* hook), "CalendarContainer", "Dashboard"
    backend,        \* the backend's tasks: id -> task, or NoTask
    nextId,         \* the id the backend gives the next task it creates
    events,         \* the view's in-memory list of events
    viewLoading,    \* the view's loading flag
    viewError,      \* the view's error message (its banner), or NoError
    calls,          \* the requests sent so far, with their answers
    dialog,         \* the task dialog: open, editing, submitError, isSubmitting
    applied,        \* history: the calls in the order their answers were applied
    \* ---- browser tabs over one localStorage (GoogleAuth, the API clients) ----
    tabs,           \* tab -> its resolver's position, user record and API client
    apiRequests     \* history: the API requests sent, with their headers

mapVars  == <<task, event, request, form, origin>>
calVars  == <<component, backend, nextId, events, viewLoading, viewError,
              calls, dialog, applied>>
authVars == <<localStorage, urlToken, now, sessionActive, draft,
              host, pc, user, loading, error, authMethod, isAuthenticated,
              indexUser, atInit, requests, apiSignOut, signedOut, loads>>
tabVars  == <<tabs, apiRequests>>
vars     == <<mapVars, authVars, calVars, tabVars>>

-----------------------------------------------------------------------------
(* Bounds of the model *)

MaxDay    == 2      \* calendar days the task timestamps are drawn from
MaxTokens == 2      \* distinct bearer tokens
MaxReloads == 1     \* times the page is loaded again in one behaviour

(* Program constants *)

MinPriority == 1            \* BackendTask.priority, "1-5 scale"
MaxPriority == 5
DefaultPriority == 3        \* "medium" on the backend scale
TOKEN_EXPIRY_DAYS == 7

-----------------------------------------------------------------------------
(* Values *)

UndefinedStr == "undefined"             \* an absent string-valued field
Undefined    == [undefined |-> TRUE]    \* an absent Date / ISO string / time

\* An ISO date-time string and a Date, both to the minute.
IsoString(n) == [iso |-> n]
DateOf(n)    == [t |-> n]
MinutesPerDay == 24 * 60

Instants == { d * MinutesPerDay + (8 + d) * 60 + 15 * d : d \in 1..MaxDay }

\* new Date(isoString)
NewDate(s) == DateOf(s.iso)
\* date.toISOString()
ToISOString(d) == IsoString(d.t)
\* date-fns format(date, 'HH:mm')
format(d) == [hh |-> (d.t % MinutesPerDay) \div 60, mm |-> d.t % 60]
\* const d2 = new Date(d); d2.setHours(hours, minutes)
SetHours(d, hours, minutes) ==
    DateOf((d.t \div MinutesPerDay) * MinutesPerDay + hours * 60 + minutes)
\* taskUtils.formatTime: 12-hour clock, 'h:mm AM/PM'
formatTime(s) ==
    LET m == s.iso % MinutesPerDay
        h == m \div 60
    IN  [h12 |-> IF h % 12 = 0 THEN 12 ELSE h % 12, mm |-> m % 60, pm |-> h >= 12]

BackendStatuses == {"pending", "in_progress", "completed", "cancelled", "on_hold"}
DisplayStatuses == {"not_started", "in_progress", "completed", "cancelled", "on_hold"}
DisplayPriorities == {"low", "medium", "high", "urgent"}
BackendPriorities == MinPriority..MaxPriority
\* priority is typed `number`: the neighbours of the scale are representable
TaskPriorities == (MinPriority - 1)..(MaxPriority + 1)
TaskNames == {"Write report"}

BackendTasks ==
    [id : {"t1"}, name : TaskNames, priority : TaskPriorities,
     status : BackendStatuses,
     specific_time : {Undefined} \cup {IsoString(n) : n \in Instants},
     deadline : {Undefined} \cup {IsoString(n) : n \in Instants},
     created_at : {IsoString(n) : n \in Instants}]

NoEvent   == [none |-> "event"]
NoRequest == [none |-> "request"]
NoForm    == [none |-> "form"]

-----------------------------------------------------------------------------
(* The mapping tables *)

\* readPriorityMap with backend priority 4 shown as "low"
readPriorityMapLow4(p) ==
    CASE p = 1 -> "urgent"
      [] p = 2 -> "high"
      [] p = 3 -> "medium"
      [] p = 4 -> "low"
      [] p = 5 -> "low"
      [] OTHER -> UndefinedStr

\* priorityMap of transformBackendTaskToCalendarEvent; a missing key reads undefined
readPriorityMap(p) ==
    CASE p = 1 -> "urgent"
      [] p = 2 -> "high"
      [] p = 3 -> "medium"
      [] p = 4 -> "medium"
      [] p = 5 -> "low"
      [] OTHER -> UndefinedStr

\* statusMap of transformBackendTaskToCalendarEvent
readStatusMap(s) ==
    CASE s = "pending"     -> "not_started"
      [] s = "in_progress" -> "in_progress"
      [] s = "completed"   -> "completed"
      [] s = "cancelled"   -> "cancelled"
      [] s = "on_hold"     -> "on_hold"
      [] OTHER -> UndefinedStr

\* writePriorityMap with "low" written back as 4
writePriorityMapLow4(d) ==
    CASE d = "urgent" -> 1
      [] d = "high"   -> 2
      [] d = "medium" -> 3
      [] d = "low"    -> 4
      [] OTHER -> 0

\* priorityMap of transformCalendarEventToBackendTask; 0 stands for a missing key
writePriorityMap(d) ==
    CASE d = "urgent" -> 1
      [] d = "high"   -> 2
      [] d = "medium" -> 3
      [] d = "low"    -> 5
      [] OTHER -> 0

\* writeStatusMap without the not_started -> pending entry
writeStatusMapIdentity(s) ==
    CASE s = "not_started" -> "not_started"
      [] s = "in_progress" -> "in_progress"
      [] s = "completed"   -> "completed"
      [] s = "cancelled"   -> "cancelled"
      [] s = "on_hold"     -> "on_hold"
      [] OTHER -> UndefinedStr

\* statusMap of transformCalendarEventToBackendTask (declared there, never read)
writeStatusMap(s) ==
    CASE s = "not_started" -> "pending"
      [] s = "in_progress" -> "in_progress"
      [] s = "completed"   -> "completed"
      [] s = "cancelled"   -> "cancelled"
      [] s = "on_hold"     -> "on_hold"
      [] OTHER -> UndefinedStr

\* priorityMap of CalendarContainer's transformTaskToEvent
containerPriorityMap(p) ==
    CASE p = 1 -> "urgent"
      [] p = 2 -> "high"
      [] p = 3 -> "medium"
      [] p = 4 -> "medium"
      [] p = 5 -> "low"
      [] OTHER -> UndefinedStr

\* priorityMap of ComprehensiveTaskDialog; 0 stands for a missing key
dialogPriorityMap(d) ==
    CASE d = "urgent" -> 1
      [] d = "high"   -> 2
      [] d = "medium" -> 3
      [] d = "low"    -> 5
      [] OTHER -> 0

\* statusMap of ComprehensiveTaskDialog
dialogStatusMap(s) ==
    CASE s = "not_started" -> "pending"
      [] s = "in_progress" -> "in_progress"
      [] s = "completed"   -> "completed"
      [] s = "cancelled"   -> "cancelled"
      [] s = "on_hold"     -> "on_hold"
      [] OTHER -> UndefinedStr

\* a || b on strings: undefined and '' are falsy
OrStr(a, b) == IF a = UndefinedStr \/ a = "" THEN b ELSE a

\* displayDate taking the creation time always
displayDateCreatedAt(t) == NewDate(t.created_at)

\* The display date: specific time, else deadline, else creation time
displayDate(t) ==
    IF t.specific_time # Undefined THEN NewDate(t.specific_time)
    ELSE IF t.deadline # Undefined THEN NewDate(t.deadline)
    ELSE NewDate(t.created_at)

transformBackendTaskToCalendarEvent(t) ==
    [id        |-> t.id,
     title     |-> t.name,
     date      |-> displayDate(t),
     time      |-> IF t.specific_time # Undefined
                   THEN format(NewDate(t.specific_time)) ELSE Undefined,
     deadline  |-> IF t.deadline # Undefined THEN NewDate(t.deadline) ELSE Undefined,
     priority  |-> OrStr(readPriorityMap(t.priority), "medium"),
     status    |-> OrStr(readStatusMap(t.status), "not_started"),
     completed |-> t.status = "completed"]

\* CalendarContainer's transformTaskToEvent
transformTaskToEvent(t) ==
    [id        |-> t.id,
     title     |-> t.name,
     date      |-> displayDate(t),
     time      |-> IF t.specific_time # Undefined
                   THEN formatTime(t.specific_time) ELSE Undefined,
     deadline  |-> IF t.deadline # Undefined THEN NewDate(t.deadline) ELSE Undefined,
     priority  |-> OrStr(containerPriorityMap(t.priority), "medium"),
     status    |-> IF t.status = "pending" THEN "not_started" ELSE t.status,
     completed |-> t.status = "completed"]

\* taskUtils.taskToCalendarEvent (TaskAPI.js), the Dashboard's mapping: the
\* date and the time are taken from the deadline, else from created_at
taskToCalendarEvent(t) ==
    [id    |-> t.id,
     title |-> t.name,
     date  |-> IF t.deadline # Undefined THEN NewDate(t.deadline)
               ELSE NewDate(t.created_at),
     time  |-> IF t.deadline # Undefined THEN formatTime(t.deadline) ELSE Undefined]

\* payloadPriority without the default for an unset priority
payloadPriorityNoDefault(e) == writePriorityMap(e.priority)

\* priority / urgency of the payload: event.priority ? priorityMap[event.priority] : 3
payloadPriority(e) ==
    IF e.priority # UndefinedStr THEN writePriorityMap(e.priority) ELSE DefaultPriority

transformCalendarEventToBackendTask(e) ==
    [name     |-> OrStr(e.title, ""),
     priority |-> payloadPriority(e),
     urgency  |-> payloadPriority(e),
     specific_time |->
        IF e.date # Undefined /\ e.time # Undefined
        THEN ToISOString(SetHours(e.date, e.time.hh, e.time.mm)) ELSE Undefined,
     deadline |->
        IF e.date = Undefined THEN Undefined
        ELSE IF e.deadline # Undefined THEN ToISOString(e.deadline)
        ELSE ToISOString(e.date)]

\* ComprehensiveTaskDialog, on opening for editEvent: the priority, urgency
\* and status fields of the form
dialogFields(e) ==
    LET p == dialogPriorityMap(OrStr(e.priority, "medium"))
    IN  [priority |-> IF p = 0 THEN DefaultPriority ELSE p,
         urgency  |-> IF p = 0 THEN DefaultPriority ELSE p,
         status   |-> OrStr(dialogStatusMap(OrStr(e.status, "not_started")), "pending")]

-----------------------------------------------------------------------------
(* SpecMap: the mapping functions applied to the bounded inputs *)

\* What a caller may hand to addEvent / updateEvent: Partial<CalendarEvent>
PartialEvents ==
    [id : {"t1"}, title : TaskNames \cup {UndefinedStr},
     date : {Undefined} \cup {DateOf(n) : n \in Instants},
     time : {Undefined, [hh |-> 9, mm |-> 30]},
     deadline : {Undefined},
     priority : DisplayPriorities \cup {UndefinedStr},
     status : {UndefinedStr, "completed"},
     completed : {FALSE}]

\* every backend task of the bounded set; the resolver is at rest meanwhile
MapInit ==
    /\ task \in BackendTasks
    /\ event = NoEvent
    /\ request = NoRequest
    /\ form = NoForm
    /\ origin = "none"
    /\ localStorage = [k \in {"deeptalk_token", "deeptalk_token_timestamp",
                              "gmail_token", "gmail_token_timestamp"} |->
                         [k |-> "null", n |-> 0]]
    /\ urlToken = [k |-> "null", n |-> 0]
    /\ now = 0
    /\ sessionActive = FALSE
    /\ draft = "initializeAuth"
    /\ host = "index"
    /\ pc = "done"
    /\ user = [none |-> "user"]
    /\ loading = FALSE
    /\ error = "null"
    /\ authMethod = "null"
    /\ isAuthenticated = FALSE
    /\ indexUser = [none |-> "user"]
    /\ atInit = [none |-> "snapshot"]
    /\ requests = <<>>
    /\ apiSignOut = "idle"
    /\ signedOut = "none"
    /\ loads = 0
    \* no calendar view is mounted
    /\ component = "unmounted"
    /\ backend = <<>>
    /\ nextId = 1
    /\ events = <<>>
    /\ viewLoading = FALSE
    /\ viewError = "null"
    /\ calls = <<>>
    /\ dialog = [open |-> FALSE]
    /\ applied = <<>>
    \* no second tab is open
    /\ tabs = <<>>
    /\ apiRequests = <<>>

\* fetchEvents / addEvent / updateEvent: the response task mapped for display
MapRead ==
    /\ origin = "none"
    /\ event' = transformBackendTaskToCalendarEvent(task)
    /\ origin' = "adapter"
    /\ UNCHANGED <<tabVars, authVars, calVars, task, request, form>>

\* loadTasks of the calendar container
MapReadContainer ==
    /\ origin = "none"
    /\ event' = transformTaskToEvent(task)
    /\ origin' = "container"
    /\ UNCHANGED <<tabVars, authVars, calVars, task, request, form>>

\* loadTasks of the Dashboard: tasksData.map(taskUtils.taskToCalendarEvent)
MapReadTaskUtils ==
    /\ origin = "none"
    /\ event' = taskToCalendarEvent(task)
    /\ origin' = "taskUtils"
    /\ UNCHANGED <<tabVars, authVars, calVars, task, request, form>>

\* the caller's own partial event
MapUserEvent ==
    /\ origin = "none"
    /\ event' \in PartialEvents
    /\ origin' = "user"
    /\ UNCHANGED <<tabVars, authVars, calVars, task, request, form>>

\* addEvent / updateEvent: the payload of the write
MapWrite ==
    /\ origin \in {"adapter", "user"}
    /\ request = NoRequest
    /\ request' = transformCalendarEventToBackendTask(event)
    /\ UNCHANGED <<tabVars, authVars, calVars, task, event, form, origin>>

\* the task dialog opened on an event of the container
MapDialog ==
    /\ origin = "container"
    /\ form = NoForm
    /\ form' = dialogFields(event)
    /\ UNCHANGED <<tabVars, authVars, calVars, task, event, request, origin>>

MapNext ==
    \/ MapRead
    \/ MapReadContainer
    \/ MapReadTaskUtils
    \/ MapUserEvent
    \/ MapWrite
    \/ MapDialog

-----------------------------------------------------------------------------
(* Authentication resolver: values *)

\* Strings held by localStorage and by the URL: a bearer token, the decimal
\* digits of a number, some other text, the empty string; Null for no entry.
Null     == [k |-> "null",  n |-> 0]
EmptyStr == [k |-> "empty", n |-> 0]
Garbage  == [k |-> "text",  n |-> 0]
Tok(i)   == [k |-> "token", n |-> i]
\* n.toString()
NumToString(n) == [k |-> "digits", n |-> n]

Tokens == {Tok(i) : i \in 1..MaxTokens}

\* JavaScript truthiness of a string-or-null
Truthy(v) == v.k \notin {"null", "empty"}
\* a || b
Or(a, b) == IF Truthy(a) THEN a ELSE b

\* parseInt(s): a number, or NaN
NaN == [nan |-> TRUE, n |-> 0]
parseInt(s) == IF s.k = "digits" THEN [nan |-> FALSE, n |-> s.n] ELSE NaN
\* t - x, x possibly NaN
Minus(t, x) == IF x.nan THEN NaN ELSE [nan |-> FALSE, n |-> t - x.n]
\* comparisons with NaN are false
GreaterEq(x, m) == ~x.nan /\ x.n >= m
Less(x, m)      == ~x.nan /\ x.n < m

TOKEN_KEY           == "deeptalk_token"
TOKEN_TIMESTAMP_KEY == "deeptalk_token_timestamp"
LEGACY_KEY           == "gmail_token"
LEGACY_TIMESTAMP_KEY == "gmail_token_timestamp"
Keys == {TOKEN_KEY, TOKEN_TIMESTAMP_KEY, LEGACY_KEY, LEGACY_TIMESTAMP_KEY}

OneDayMs == 24 * 60 * 60 * 1000
\* TOKEN_EXPIRY_DAYS * 24 * 60 * 60 * 1000
maxAge == TOKEN_EXPIRY_DAYS * OneDayMs
\* 7 * 24 * 60 * 60 * 1000 of checkExistingAuth
sevenDays == 7 * OneDayMs
\* The clock counts ms from an origin ten days before the first page load.
FirstLoadTime == 10 * OneDayMs

NoUser  == [none |-> "user"]
NoError == "null"
\* processNewToken leaving no message behind
ProcessTokenErrorUnset == "null"
ProcessTokenError == "Failed to process authentication token. Please try again."
TokenFailedError  == "Token verification failed"
NetworkTokenError == "Network error during token verification"

Drafts == {"checkExistingAuth", "initializeAuth"}
NoSnapshot == [none |-> "snapshot"]

\* createUserData tagging every user record "token"
createUserDataAlwaysToken(loginMethod) ==
    [email |-> "user@example.com", loginMethod |-> "token",
     sessionActive |-> FALSE, tokenValid |-> TRUE]

\* createUserData(data, loginMethod); data is the backend's answer
createUserData(loginMethod) ==
    [email |-> "user@example.com", loginMethod |-> loginMethod,
     sessionActive |-> loginMethod = "session", tokenValid |-> loginMethod = "token"]

\* cleanupStoredTokens (initializeAuth draft)
cleanupStoredTokens(ls) ==
    [ls EXCEPT ![TOKEN_KEY] = Null, ![TOKEN_TIMESTAMP_KEY] = Null,
               ![LEGACY_KEY] = Null, ![LEGACY_TIMESTAMP_KEY] = Null]

\* cleanupAllTokens (checkExistingAuth draft)
cleanupAllTokens(ls) ==
    [ls EXCEPT ![TOKEN_KEY] = Null, ![TOKEN_TIMESTAMP_KEY] = Null,
               ![LEGACY_KEY] = Null, ![LEGACY_TIMESTAMP_KEY] = Null]

\* processNewToken storing the timestamp but not the token
processNewTokenStoreNoToken(ls, token, t) ==
    [ls EXCEPT ![TOKEN_TIMESTAMP_KEY] = NumToString(t)]

\* processNewToken, the two setItem calls at time t
processNewTokenStore(ls, token, t) ==
    [ls EXCEPT ![TOKEN_KEY] = token, ![TOKEN_TIMESTAMP_KEY] = NumToString(t)]

\* getValidStoredToken with the expiry test written tokenAge > maxAge
getValidStoredTokenStrict(ls, t) ==
    LET token     == ls[TOKEN_KEY]
        timestamp == ls[TOKEN_TIMESTAMP_KEY]
        tokenAge  == Minus(t, parseInt(timestamp))
    IN  IF ~Truthy(token) \/ ~Truthy(timestamp)
        THEN [token |-> Null, ls |-> cleanupStoredTokens(ls)]
        ELSE IF ~tokenAge.nan /\ tokenAge.n > maxAge
        THEN [token |-> Null, ls |-> cleanupStoredTokens(ls)]
        ELSE [token |-> token, ls |-> ls]

\* getValidStoredToken returning null for an expired token without the cleanup
getValidStoredTokenNoPurge(ls, t) ==
    LET token     == ls[TOKEN_KEY]
        timestamp == ls[TOKEN_TIMESTAMP_KEY]
        tokenAge  == Minus(t, parseInt(timestamp))
    IN  IF ~Truthy(token) \/ ~Truthy(timestamp)
        THEN [token |-> Null, ls |-> cleanupStoredTokens(ls)]
        ELSE IF GreaterEq(tokenAge, maxAge)
        THEN [token |-> Null, ls |-> ls]
        ELSE [token |-> token, ls |-> ls]

\* getValidStoredToken at time t: the token to verify (or Null) and the storage left
getValidStoredToken(ls, t) ==
    LET token     == ls[TOKEN_KEY]
        timestamp == ls[TOKEN_TIMESTAMP_KEY]
        tokenAge  == Minus(t, parseInt(timestamp))
    IN  IF ~Truthy(token) \/ ~Truthy(timestamp)
        THEN [token |-> Null, ls |-> cleanupStoredTokens(ls)]
        ELSE IF GreaterEq(tokenAge, maxAge)
        THEN [token |-> Null, ls |-> cleanupStoredTokens(ls)]
        ELSE [token |-> token, ls |-> ls]

\* checkExistingAuth, the stored-token branch up to its first await: the token
\* to verify (or Null) and the storage left
storedTokenBranch(ls, t) ==
    LET storedToken    == Or(ls[TOKEN_KEY], ls[LEGACY_KEY])
        tokenTimestamp == Or(ls[TOKEN_TIMESTAMP_KEY], ls[LEGACY_TIMESTAMP_KEY])
        tokenAge       == Minus(t, parseInt(tokenTimestamp))
        migrated       == [ls EXCEPT ![TOKEN_KEY] = storedToken,
                                     ![TOKEN_TIMESTAMP_KEY] = tokenTimestamp,
                                     ![LEGACY_KEY] = Null,
                                     ![LEGACY_TIMESTAMP_KEY] = Null]
    IN  IF Truthy(storedToken) /\ Truthy(tokenTimestamp)
        THEN IF Less(tokenAge, sevenDays)
             THEN [token |-> storedToken,
                   ls |-> IF Truthy(ls[LEGACY_KEY]) THEN migrated ELSE ls]
             ELSE [token |-> Null, ls |-> cleanupAllTokens(ls)]
        ELSE [token |-> Null, ls |-> ls]

\* The stored token and timestamp as each draft reads them
storedTokenOf(d, ls) ==
    IF d = "initializeAuth" THEN ls[TOKEN_KEY] ELSE Or(ls[TOKEN_KEY], ls[LEGACY_KEY])
storedTimestampOf(d, ls) ==
    IF d = "initializeAuth" THEN ls[TOKEN_TIMESTAMP_KEY]
    ELSE Or(ls[TOKEN_TIMESTAMP_KEY], ls[LEGACY_TIMESTAMP_KEY])

\* A verification request: the endpoint, the token of its body (Null: none),
\* the path that sent it, the stored token when it was sent, and its outcome.
Request(endpoint, token, via, ls) ==
    [endpoint |-> endpoint, token |-> token, via |-> via,
     stored |-> ls[TOKEN_KEY], timestamp |-> ls[TOKEN_TIMESTAMP_KEY],
     outcome |-> "pending"]

TokenRequest(token, via, ls) == Request("/auth/verify-token/", token, via, ls)
\* verifySessionAuth posts to /auth/verify-session/, checkSessionAuth to
\* /auth/verify-token/ with an empty body
SessionRequest(d, ls) ==
    Request(IF d = "initializeAuth" THEN "/auth/verify-session/"
            ELSE "/auth/verify-token/", Null, "session", ls)

Answered(reqs, outcome) ==
    [reqs EXCEPT ![Len(reqs)] = [@ EXCEPT !.outcome = outcome]]

FailureOutcomes == {"rejected", "rejected_unreadable", "network_error"}

-----------------------------------------------------------------------------
(* Authentication resolver: state machine *)

BackendError == "backend error text"

\* The timestamps a browser may hold when the page is first loaded: written
\* by an earlier visit (age 0, just inside, exactly at and beyond the validity
\* window), absent, or not a number.
StoredTimestamps ==
    {Null, Garbage} \cup
    {NumToString(FirstLoadTime - age) : age \in {0, maxAge - 1, maxAge, 8 * OneDayMs}}
LegacyTimestamps ==
    {Null} \cup {NumToString(FirstLoadTime - age) : age \in {0, 8 * OneDayMs}}
UrlTokens == {Null, EmptyStr} \cup Tokens

Snapshot ==
    [url |-> urlToken, token |-> storedTokenOf(draft, localStorage),
     timestamp |-> storedTimestampOf(draft, localStorage),
     ls |-> localStorage, now |-> now, after |-> signedOut]

AuthInit ==
    /\ localStorage \in
         { [k \in Keys |->
              CASE k = TOKEN_KEY -> t
                [] k = TOKEN_TIMESTAMP_KEY -> ts
                [] k = LEGACY_KEY -> lt
                [] k = LEGACY_TIMESTAMP_KEY -> lts] :
           t \in {Null} \cup Tokens, ts \in StoredTimestamps,
           lt \in {Null, Tok(1)}, lts \in LegacyTimestamps }
    /\ urlToken \in UrlTokens
    /\ now = FirstLoadTime
    /\ sessionActive \in BOOLEAN
    /\ draft \in Drafts
    /\ host \in {"index", "standalone"}
    /\ pc = "mount"
    /\ user = NoUser
    /\ loading = TRUE
    /\ error = NoError
    /\ authMethod = "null"
    /\ isAuthenticated = FALSE
    /\ indexUser = NoUser
    /\ atInit = NoSnapshot
    /\ requests = <<>>
    /\ apiSignOut = "idle"
    /\ signedOut = "none"
    /\ loads = 0
    \* no task at hand while the resolver runs
    /\ task = CHOOSE t \in BackendTasks : TRUE
    /\ event = NoEvent
    /\ request = NoRequest
    /\ form = NoForm
    /\ origin = "parked"
    \* no calendar view is mounted
    /\ component = "unmounted"
    /\ backend = <<>>
    /\ nextId = 1
    /\ events = <<>>
    /\ viewLoading = FALSE
    /\ viewError = "null"
    /\ calls = <<>>
    /\ dialog = [open |-> FALSE]
    /\ applied = <<>>
    \* no second tab is open
    /\ tabs = <<>>
    /\ apiRequests = <<>>

\* onAuthSuccess?.(userData): Index.handleAuthSuccess when hosted by Index
onAuthSuccess(userData) ==
    IF host = "index"
    THEN isAuthenticated' = TRUE /\ indexUser' = userData
    ELSE UNCHANGED <<isAuthenticated, indexUser>>

\* ---- draft initializeAuth ----

\* useEffect -> initializeAuth, up to its first await
InitializeAuth ==
    /\ pc = "mount" /\ draft = "initializeAuth"
    /\ loading' = TRUE
    /\ error' = NoError
    /\ atInit' = Snapshot
    /\ signedOut' = "none"
    /\ IF Truthy(urlToken)
       THEN \* processNewToken: store, clean the URL, verify
            LET ls1 == processNewTokenStore(localStorage, urlToken, now)
            IN  /\ localStorage' = ls1
                /\ urlToken' = Null
                /\ requests' = <<TokenRequest(urlToken, "url", ls1)>>
                /\ pc' = "url_verify"
       ELSE LET r == getValidStoredToken(localStorage, now)
            IN  /\ localStorage' = r.ls
                /\ urlToken' = urlToken
                /\ IF r.token # Null
                   THEN /\ requests' = <<TokenRequest(r.token, "stored", r.ls)>>
                        /\ pc' = "stored_verify"
                   ELSE /\ requests' = <<SessionRequest(draft, r.ls)>>
                        /\ pc' = "session_verify"
    /\ UNCHANGED <<tabVars, mapVars, calVars, now, sessionActive, draft, host, user, authMethod,
                   isAuthenticated, indexUser, apiSignOut, loads>>

\* verifyTokenAuth, response.ok (from processNewToken or for the stored token)
VerifyTokenAuthOk ==
    /\ pc \in {"url_verify", "stored_verify"} /\ draft = "initializeAuth"
    /\ user' = createUserData("token")
    /\ authMethod' = "token"
    /\ loading' = FALSE
    /\ onAuthSuccess(user')
    /\ requests' = Answered(requests, "ok")
    /\ pc' = "done"
    /\ UNCHANGED <<tabVars, mapVars, calVars, localStorage, urlToken, now, sessionActive, draft, host, error,
                   atInit, apiSignOut, signedOut, loads>>

\* processNewToken after verifyTokenAuth returned false
ProcessNewTokenFailed ==
    /\ pc = "url_verify" /\ draft = "initializeAuth"
    /\ \E o \in FailureOutcomes : requests' = Answered(requests, o)
    /\ localStorage' = cleanupStoredTokens(cleanupStoredTokens(localStorage))
    /\ error' = ProcessTokenError
    /\ loading' = FALSE
    /\ pc' = "done"
    /\ UNCHANGED <<tabVars, mapVars, calVars, urlToken, now, sessionActive, draft, host, user, authMethod,
                   isAuthenticated, indexUser, atInit, apiSignOut, signedOut, loads>>

\* initializeAuth after verifyTokenAuth(storedToken) returned false: on to the session
StoredTokenFailed ==
    /\ pc = "stored_verify" /\ draft = "initializeAuth"
    /\ \E o \in FailureOutcomes :
          requests' = Append(Answered(requests, o), SessionRequest(draft, localStorage))
    /\ pc' = "session_verify"
    /\ UNCHANGED <<tabVars, mapVars, calVars, localStorage, urlToken, now, sessionActive, draft, host, user,
                   loading, error, authMethod, isAuthenticated, indexUser, atInit,
                   apiSignOut, signedOut, loads>>

\* verifySessionAuth, response.ok
VerifySessionAuthOk ==
    /\ pc = "session_verify" /\ draft = "initializeAuth"
    /\ sessionActive
    /\ user' = createUserData("session")
    /\ authMethod' = "session"
    /\ loading' = FALSE
    /\ onAuthSuccess(user')
    /\ requests' = Answered(requests, "ok")
    /\ pc' = "done"
    /\ UNCHANGED <<tabVars, mapVars, calVars, localStorage, urlToken, now, sessionActive, draft, host, error,
                   atInit, apiSignOut, signedOut, loads>>

\* initializeAuth ending without its setLoading(false)
VerifySessionAuthFailedStillLoading ==
    /\ pc = "session_verify" /\ draft = "initializeAuth"
    /\ \E o \in {"rejected", "network_error"} :
          /\ o = "rejected" => ~sessionActive
          /\ requests' = Answered(requests, o)
    /\ pc' = "done"
    /\ UNCHANGED <<tabVars, mapVars, calVars, localStorage, urlToken, now, sessionActive, draft, host, user,
                   loading, error, authMethod, isAuthenticated, indexUser, atInit,
                   apiSignOut, signedOut, loads>>

\* verifySessionAuth returned false; initializeAuth ends with setLoading(false)
VerifySessionAuthFailed ==
    /\ pc = "session_verify" /\ draft = "initializeAuth"
    /\ \E o \in {"rejected", "network_error"} :
          /\ o = "rejected" => ~sessionActive
          /\ requests' = Answered(requests, o)
    /\ loading' = FALSE
    /\ pc' = "done"
    /\ UNCHANGED <<tabVars, mapVars, calVars, localStorage, urlToken, now, sessionActive, draft, host, user,
                   error, authMethod, isAuthenticated, indexUser, atInit,
                   apiSignOut, signedOut, loads>>

\* ---- draft checkExistingAuth ----

\* the user record of verifyToken (tokenValid) and of checkSessionAuth
\* (sessionActive); loginMethod is the backend's data.login_method
userDataOf(loginMethod, path) ==
    [email |-> "user@example.com", loginMethod |-> loginMethod,
     sessionActive |-> path = "session", tokenValid |-> path = "token"]

\* the message verifyToken leaves for a failed verification
verifyTokenError(outcome) ==
    IF outcome = "rejected" THEN {BackendError, TokenFailedError}
    ELSE {NetworkTokenError}

\* useEffect -> checkExistingAuth, up to its first await
CheckExistingAuth ==
    /\ pc = "mount" /\ draft = "checkExistingAuth"
    /\ loading' = TRUE
    /\ error' = NoError
    /\ atInit' = Snapshot
    /\ signedOut' = "none"
    /\ IF Truthy(urlToken)
       THEN LET ls1 == [localStorage EXCEPT ![TOKEN_KEY] = urlToken,
                            ![TOKEN_TIMESTAMP_KEY] = NumToString(now),
                            ![LEGACY_KEY] = Null,
                            ![LEGACY_TIMESTAMP_KEY] = Null]
            IN  /\ localStorage' = ls1
                /\ requests' = <<TokenRequest(urlToken, "url", ls1)>>
                /\ pc' = "url_verify"
       ELSE LET r == storedTokenBranch(localStorage, now)
            IN  /\ localStorage' = r.ls
                /\ IF r.token # Null
                   THEN /\ requests' = <<TokenRequest(r.token, "stored", r.ls)>>
                        /\ pc' = "stored_verify"
                   ELSE /\ requests' = <<SessionRequest(draft, r.ls)>>
                        /\ pc' = "session_verify"
    /\ UNCHANGED <<tabVars, mapVars, calVars, urlToken, now, sessionActive, draft, host, user, authMethod,
                   isAuthenticated, indexUser, apiSignOut, loads>>

\* verifyToken, response.ok; for the URL token the URL is cleaned afterwards
VerifyTokenOk ==
    /\ pc \in {"url_verify", "stored_verify"} /\ draft = "checkExistingAuth"
    /\ \E m \in {"token", "session"} : user' = userDataOf(m, "token")
    /\ loading' = FALSE
    /\ error' = NoError
    /\ onAuthSuccess(user')
    /\ urlToken' = IF pc = "url_verify" THEN Null ELSE urlToken
    /\ requests' = Answered(requests, "ok")
    /\ pc' = "done"
    /\ UNCHANGED <<tabVars, mapVars, calVars, localStorage, now, sessionActive, draft, host, authMethod,
                   atInit, apiSignOut, signedOut, loads>>

\* verifyToken returned false: the tokens are cleaned up and the session is tried
VerifyTokenFailed ==
    /\ pc \in {"url_verify", "stored_verify"} /\ draft = "checkExistingAuth"
    /\ \E o \in FailureOutcomes :
          /\ error' \in verifyTokenError(o)
          /\ LET cleaned == cleanupAllTokens(localStorage)
                 \* after the URL branch the stored-token branch runs on what is left
                 r == IF pc = "url_verify" THEN storedTokenBranch(cleaned, now)
                      ELSE [token |-> Null, ls |-> cleaned]
             IN  /\ localStorage' = r.ls
                 /\ IF r.token # Null
                    THEN /\ requests' = Append(Answered(requests, o),
                                               TokenRequest(r.token, "stored", r.ls))
                         /\ pc' = "stored_verify"
                    ELSE /\ requests' = Append(Answered(requests, o),
                                               SessionRequest(draft, r.ls))
                         /\ pc' = "session_verify"
    /\ loading' = FALSE
    /\ UNCHANGED <<tabVars, mapVars, calVars, urlToken, now, sessionActive, draft, host, user, authMethod,
                   isAuthenticated, indexUser, atInit, apiSignOut, signedOut, loads>>

\* checkSessionAuth, response.ok; checkExistingAuth ends with setLoading(false)
CheckSessionAuthOk ==
    /\ pc = "session_verify" /\ draft = "checkExistingAuth"
    /\ sessionActive
    /\ \E m \in {"token", "session"} : user' = userDataOf(m, "session")
    /\ loading' = FALSE
    /\ onAuthSuccess(user')
    /\ requests' = Answered(requests, "ok")
    /\ pc' = "done"
    /\ UNCHANGED <<tabVars, mapVars, calVars, localStorage, urlToken, now, sessionActive, draft, host, error,
                   authMethod, atInit, apiSignOut, signedOut, loads>>

\* checkSessionAuth returned false
CheckSessionAuthFailed ==
    /\ pc = "session_verify" /\ draft = "checkExistingAuth"
    /\ \E o \in {"rejected", "network_error"} :
          /\ o = "rejected" => ~sessionActive
          /\ requests' = Answered(requests, o)
    /\ loading' = FALSE
    /\ pc' = "done"
    /\ UNCHANGED <<tabVars, mapVars, calVars, localStorage, urlToken, now, sessionActive, draft, host, user,
                   error, authMethod, isAuthenticated, indexUser, atInit,
                   apiSignOut, signedOut, loads>>

\* ---- sign-out ----

\* GoogleAuth.handleSignOut (both drafts), from its own Dashboard: up to the
\* logout request
HandleSignOut ==
    /\ host = "standalone" /\ pc = "done"
    /\ user # NoUser /\ ~loading
    /\ loading' = TRUE
    /\ pc' = "logout"
    /\ UNCHANGED <<tabVars, mapVars, calVars, localStorage, urlToken, now, sessionActive, draft, host, user,
                   error, authMethod, isAuthenticated, indexUser, atInit, requests,
                   apiSignOut, signedOut, loads>>

\* GoogleAuth.handleSignOut after the logout request returned or threw
HandleSignOutDone ==
    /\ pc = "logout"
    /\ \E o \in {"ok", "network_error"} :
          sessionActive' = IF o = "ok" THEN FALSE ELSE sessionActive
    /\ localStorage' = IF draft = "initializeAuth"
                       THEN cleanupStoredTokens(localStorage)
                       ELSE cleanupAllTokens(localStorage)
    /\ user' = NoUser
    /\ authMethod' = "null"
    /\ error' = NoError
    /\ loading' = FALSE
    /\ pc' = "done"
    /\ signedOut' = "GoogleAuth"
    /\ UNCHANGED <<tabVars, mapVars, calVars, urlToken, now, draft, host, isAuthenticated, indexUser, atInit,
                   requests, apiSignOut, loads>>

\* Index.handleSignOut, from the header of the main application; GoogleAuth
\* is mounted again by the next render
IndexHandleSignOut ==
    /\ host = "index" /\ isAuthenticated
    /\ localStorage' = [localStorage EXCEPT ![TOKEN_KEY] = Null,
                                            ![TOKEN_TIMESTAMP_KEY] = Null]
    /\ isAuthenticated' = FALSE
    /\ indexUser' = NoUser
    /\ user' = NoUser
    /\ loading' = TRUE
    /\ error' = NoError
    /\ authMethod' = "null"
    /\ pc' = "mount"
    /\ signedOut' = "Index"
    /\ UNCHANGED <<tabVars, mapVars, calVars, urlToken, now, sessionActive, draft, host, atInit, requests,
                   apiSignOut, loads>>

\* authAPI.signOut: up to the logout request
AuthApiSignOut ==
    /\ apiSignOut = "idle"
    /\ pc = "done"
    /\ user # NoUser
    /\ apiSignOut' = "pending"
    /\ UNCHANGED <<tabVars, mapVars, calVars, localStorage, urlToken, now, sessionActive, draft, host, pc, user,
                   loading, error, authMethod, isAuthenticated, indexUser, atInit,
                   requests, signedOut, loads>>

\* authAPI.signOut, the finally block
AuthApiSignOutDone ==
    /\ apiSignOut = "pending"
    /\ \E o \in {"ok", "network_error"} :
          sessionActive' = IF o = "ok" THEN FALSE ELSE sessionActive
    /\ localStorage' = [localStorage EXCEPT ![TOKEN_KEY] = Null,
                                            ![TOKEN_TIMESTAMP_KEY] = Null]
    /\ apiSignOut' = "idle"
    /\ signedOut' = "authAPI"
    /\ UNCHANGED <<tabVars, mapVars, calVars, urlToken, now, draft, host, pc, user, loading, error, authMethod,
                   isAuthenticated, indexUser, atInit, requests, loads>>

\* ---- the page is loaded again (reload, or the return from the OAuth redirect) ----
PageLoad ==
    /\ loads < MaxReloads
    /\ pc = "done"
    /\ loads' = loads + 1
    /\ urlToken' \in UrlTokens
    /\ now' \in {now, now + 1}
    /\ pc' = "mount"
    /\ user' = NoUser
    /\ loading' = TRUE
    /\ error' = NoError
    /\ authMethod' = "null"
    /\ isAuthenticated' = FALSE
    /\ indexUser' = NoUser
    /\ atInit' = NoSnapshot
    /\ requests' = <<>>
    /\ apiSignOut' = "idle"
    /\ signedOut' = "none"
    /\ UNCHANGED <<tabVars, mapVars, calVars, localStorage, sessionActive, draft, host>>

AuthNext ==
    \/ InitializeAuth
    \/ VerifyTokenAuthOk
    \/ ProcessNewTokenFailed
    \/ StoredTokenFailed
    \/ VerifySessionAuthOk
    \/ VerifySessionAuthFailed
    \/ CheckExistingAuth
    \/ VerifyTokenOk
    \/ VerifyTokenFailed
    \/ CheckSessionAuthOk
    \/ CheckSessionAuthFailed
    \/ HandleSignOut
    \/ HandleSignOutDone
    \/ IndexHandleSignOut
    \/ AuthApiSignOut
    \/ AuthApiSignOutDone
    \/ PageLoad

-----------------------------------------------------------------------------
(* Calendar views: values *)

MaxTasks == 2       \* tasks the backend ever holds (ids 1..MaxTasks)
MaxCalls == 3       \* requests sent in one behaviour

TaskIds == 1..MaxTasks
NoTask   == [none |-> "task"]
NoAnswer == [none |-> "answer"]
NoId     == 0

Components == {"AdaptedCalendarContainer", "CalendarContainer", "Dashboard"}

\* The messages of failed requests: `HTTP ${status}: ${statusText}`
ServerError == "HTTP 500: Internal Server Error"
NotFound    == "HTTP 404: Not Found"

\* The task the backend holds when the view is mounted
InitialTask ==
    LET first == CHOOSE n \in Instants : \A m \in Instants : n <= m
    IN  [id |-> 1, name |-> "Write report", priority |-> 4, status |-> "pending",
         specific_time |-> Undefined, deadline |-> IsoString(first),
         created_at |-> IsoString(first)]

\* the backend's clock when it creates a task: the latest instant
BackendNow ==
    IsoString(CHOOSE n \in Instants : \A m \in Instants : m <= n)

\* ---- the backend, as its answers are consumed (a black box to the views) ----

\* GET tasks: { tasks: [...] }
tasksOf(b) == SelectSeq([i \in TaskIds |-> b[i]], LAMBDA t : t # NoTask)

\* POST tasks: the task the backend creates from a payload, stamped with its
\* creation time; timing fields the payload does not carry stay unset
createdTask(id, payload, at) ==
    [id |-> id, name |-> payload.name, priority |-> payload.priority,
     status |-> IF "status" \in DOMAIN payload THEN payload.status ELSE "pending",
     specific_time |-> payload.specific_time, deadline |-> payload.deadline,
     created_at |-> at]

\* PUT tasks/<id>: the fields the payload carries replace the task's
updatedTask(t, payload) ==
    [t EXCEPT !.name = payload.name,
              !.priority = payload.priority,
              !.status = IF "status" \in DOMAIN payload THEN payload.status ELSE @,
              !.specific_time = IF payload.specific_time # Undefined
                                THEN payload.specific_time ELSE @,
              !.deadline = IF payload.deadline # Undefined
                           THEN payload.deadline ELSE @]

\* POST tasks/<id>/toggle-status: between pending and completed
toggledTask(t) ==
    [t EXCEPT !.status = IF @ = "completed" THEN "pending" ELSE "completed"]

\* ---- requests ----

\* A request of a handler: the handler that sent it, the task id of its
\* path (NoId: none), the event or form the handler was given (NoEvent:
\* none), the body built from it, whether the dialog's save sent it, how
\* far it is ("sent", "answered", "applied"), and the answer.
Call(handler, id, arg, payload, from) ==
    [handler |-> handler, id |-> id, arg |-> arg, payload |-> payload,
     from |-> from, phase |-> "sent", answer |-> NoAnswer]

Failure(message) == [ok |-> FALSE, message |-> message]

\* ---- setEvents updaters of useCalendarEvents ----

\* updateEvent / markTaskCompleted keeping the entry they find
replaceEventKeep(prev, id, e) == prev

\* updateEvent / markTaskCompleted adding the entry they do not find
replaceEventUpsert(prev, id, e) ==
    IF \E i \in DOMAIN prev : prev[i].id = id
    THEN [i \in DOMAIN prev |-> IF prev[i].id = id THEN e ELSE prev[i]]
    ELSE Append(prev, e)

\* updateEvent / markTaskCompleted overwriting every entry
replaceEventAll(prev, id, e) == [i \in DOMAIN prev |-> e]

\* prev.map(event => event.id === eventId ? updated : event)
replaceEvent(prev, id, e) ==
    [i \in DOMAIN prev |-> IF prev[i].id = id THEN e ELSE prev[i]]

\* addEvent dropping the new event
appendEventDrop(prev, e) == prev

\* [...prev, newCalendarEvent]
appendEvent(prev, e) == Append(prev, e)

\* prev.filter(event => event.id !== eventId)
removeEvent(prev, id) == SelectSeq(prev, LAMBDA e : e.id # id)

-----------------------------------------------------------------------------
(* Calendar views: state machine *)

ClosedDialog == [open |-> FALSE]

\* the dates of the calendar grid and of the dialogs' date inputs: days, at 00:00
Days == {DateOf(d * MinutesPerDay) : d \in 1..MaxDay}

\* what a consumer of the hook hands to addEvent / updateEvent directly
HookEvents ==
    {[title |-> "Write report", date |-> Undefined, time |-> Undefined,
      deadline |-> Undefined, priority |-> p, status |-> UndefinedStr] :
        p \in {"high", "low"}}

\* what the user may have entered in TaskEventDialog when saving
TaskEventForms ==
    {f \in [specificTime : {Undefined, [hh |-> 9, mm |-> 30]},
             deadline : {Undefined, DateOf(MaxDay * MinutesPerDay)},
             priority : {"medium"}] :
        f.specificTime # Undefined => f.deadline # Undefined}

\* TaskEventDialog.handleSave: eventData
eventDataOf(f, date) ==
    [title |-> "Write report", date |-> date, time |-> f.specificTime,
     deadline |-> f.deadline, priority |-> f.priority,
     status |-> "not_started", completed |-> FALSE]

\* the event a view shows for a task
viewEvent(c, t) ==
    CASE c = "AdaptedCalendarContainer" -> transformBackendTaskToCalendarEvent(t)
      [] c = "CalendarContainer" -> transformTaskToEvent(t)
      [] c = "Dashboard" -> taskToCalendarEvent(t)

\* a view is mounted over a backend holding one task: either nothing is
\* fetched yet, or the fetch of the mount has been applied (the requests
\* counted from then on)
CalInit ==
    /\ component \in Components
    /\ backend = [i \in TaskIds |-> IF i = 1 THEN InitialTask ELSE NoTask]
    /\ nextId = 2
    /\ events \in {<<>>, <<viewEvent(component, InitialTask)>>}
    /\ viewLoading = (component = "Dashboard" /\ events = <<>>)
    /\ viewError = NoError
    /\ calls = <<>>
    /\ dialog = ClosedDialog
    /\ applied = <<>>
    \* no second tab is open
    /\ tabs = <<>>
    /\ apiRequests = <<>>
    \* the mapping and the resolver are at rest
    /\ task = CHOOSE t \in BackendTasks : TRUE
    /\ event = NoEvent
    /\ request = NoRequest
    /\ form = NoForm
    /\ origin = "parked"
    /\ localStorage = [k \in Keys |-> Null]
    /\ urlToken = Null
    /\ now = 0
    /\ sessionActive = FALSE
    /\ draft = "initializeAuth"
    /\ host = "index"
    /\ pc = "done"
    /\ user = NoUser
    /\ loading = FALSE
    /\ error = NoError
    /\ authMethod = "null"
    /\ isAuthenticated = FALSE
    /\ indexUser = NoUser
    /\ atInit = NoSnapshot
    /\ requests = <<>>
    /\ apiSignOut = "idle"
    /\ signedOut = "none"
    /\ loads = 0

Hook == component = "AdaptedCalendarContainer"
\* the page behind the dialog's overlay takes no clicks while the dialog is open
CanCall == Len(calls) < MaxCalls
PageCanCall == CanCall /\ ~dialog.open
ShownIds == {events[i].id : i \in DOMAIN events}

\* the request is answered: the handler's await resumes with the answer
Answer(i) == calls[i].answer
Resumes(i, handler) ==
    /\ i \in DOMAIN calls
    /\ calls[i].handler = handler
    /\ calls[i].phase = "answered"
Applied(i) == [calls EXCEPT ![i] = [@ EXCEPT !.phase = "applied"]]

\* ---- the backend answers a request ----

BackendAnswer ==
    \E i \in DOMAIN calls :
        /\ calls[i].phase = "sent"
        /\ \E a \in
              {Failure(ServerError)} \cup
              CASE calls[i].handler \in {"fetchEvents", "loadTasks", "fetchTasks"} ->
                     {[ok |-> TRUE, tasks |-> tasksOf(backend)]}
                [] calls[i].handler \in {"addEvent", "createTask"} ->
                     IF nextId \in TaskIds
                     THEN {[ok |-> TRUE,
                            task |-> createdTask(nextId, calls[i].payload, BackendNow)]}
                     ELSE {}
                [] calls[i].handler \in {"updateEvent", "updateTask"} ->
                     IF backend[calls[i].id] # NoTask
                     THEN {[ok |-> TRUE,
                            task |-> updatedTask(backend[calls[i].id], calls[i].payload)]}
                     ELSE {Failure(NotFound)}
                [] calls[i].handler = "deleteEvent" ->
                     IF backend[calls[i].id] # NoTask
                     THEN {[ok |-> TRUE, deleted |-> calls[i].id]}
                     ELSE {Failure(NotFound)}
                [] calls[i].handler = "markTaskCompleted" ->
                     IF backend[calls[i].id] # NoTask
                     THEN {[ok |-> TRUE, task |-> toggledTask(backend[calls[i].id])]}
                     ELSE {Failure(NotFound)} :
              /\ calls' = [calls EXCEPT ![i] = [@ EXCEPT !.phase = "answered",
                                                         !.answer = a]]
              /\ backend' =
                    IF ~a.ok THEN backend
                    ELSE IF "task" \in DOMAIN a
                         THEN [backend EXCEPT ![a.task.id] = a.task]
                    ELSE IF "deleted" \in DOMAIN a
                         THEN [backend EXCEPT ![a.deleted] = NoTask]
                    ELSE backend
              /\ nextId' = IF a.ok /\ calls[i].handler \in {"addEvent", "createTask"}
                           THEN nextId + 1 ELSE nextId
    /\ UNCHANGED <<tabVars, mapVars, authVars, component, events, viewLoading, viewError,
                   dialog, applied>>

\* ---- useCalendarEvents (d.ts), under AdaptedCalendarContainer ----

\* refreshEvents on mount, the banner's Retry, the calendar's refresh:
\* fetchEvents up to its await
FetchEvents ==
    /\ Hook /\ PageCanCall
    /\ viewLoading' = TRUE
    /\ viewError' = NoError
    /\ calls' = Append(calls, Call("fetchEvents", NoId, NoEvent, NoRequest, "view"))
    /\ UNCHANGED <<tabVars, mapVars, authVars, component, backend, nextId, events, dialog, applied>>

\* fetchEvents after its await
FetchEventsDone ==
    \E i \in DOMAIN calls :
        /\ Resumes(i, "fetchEvents")
        /\ IF Answer(i).ok
           THEN /\ events' = [k \in DOMAIN Answer(i).tasks |->
                                transformBackendTaskToCalendarEvent(Answer(i).tasks[k])]
                /\ viewError' = viewError
           ELSE /\ events' = events
                /\ viewError' = Answer(i).message
        /\ viewLoading' = FALSE
        /\ calls' = Applied(i)
        /\ applied' = Append(applied, i)
    /\ UNCHANGED <<tabVars, mapVars, authVars, component, backend, nextId, dialog>>

\* addEvent called by a consumer of the hook, up to its await
AddEvent ==
    /\ Hook /\ PageCanCall
    /\ \E e \in {h \in HookEvents : h.priority = "high"} :
          calls' = Append(calls, Call("addEvent", NoId, e,
                                      transformCalendarEventToBackendTask(e), "view"))
    /\ viewLoading' = TRUE
    /\ viewError' = NoError
    /\ UNCHANGED <<tabVars, mapVars, authVars, component, backend, nextId, events, dialog, applied>>

\* updateEvent called by a consumer of the hook, up to its await
UpdateEvent ==
    /\ Hook /\ PageCanCall
    /\ \E id \in ShownIds, e \in HookEvents :
          calls' = Append(calls, Call("updateEvent", id, e,
                                      transformCalendarEventToBackendTask(e), "view"))
    /\ viewLoading' = TRUE
    /\ viewError' = NoError
    /\ UNCHANGED <<tabVars, mapVars, authVars, component, backend, nextId, events, dialog, applied>>

\* handleSaveEvent after addEvent / updateEvent returned (they never throw),
\* then handleSave's onClose() and finally: the dialog is closed
afterSave(i) == IF calls[i].from = "dialog" THEN ClosedDialog ELSE dialog

\* addEvent after its await
AddEventDone ==
    \E i \in DOMAIN calls :
        /\ Resumes(i, "addEvent")
        /\ IF Answer(i).ok
           THEN /\ events' = appendEvent(events,
                                transformBackendTaskToCalendarEvent(Answer(i).task))
                /\ viewError' = viewError
           ELSE /\ events' = events
                /\ viewError' = Answer(i).message
        /\ viewLoading' = FALSE
        /\ dialog' = afterSave(i)
        /\ calls' = Applied(i)
        /\ applied' = Append(applied, i)
    /\ UNCHANGED <<tabVars, mapVars, authVars, component, backend, nextId>>

\* updateEvent after its await
UpdateEventDone ==
    \E i \in DOMAIN calls :
        /\ Resumes(i, "updateEvent")
        /\ IF Answer(i).ok
           THEN /\ events' = replaceEvent(events, calls[i].id,
                                transformBackendTaskToCalendarEvent(Answer(i).task))
                /\ viewError' = viewError
           ELSE /\ events' = events
                /\ viewError' = Answer(i).message
        /\ viewLoading' = FALSE
        /\ dialog' = afterSave(i)
        /\ calls' = Applied(i)
        /\ applied' = Append(applied, i)
    /\ UNCHANGED <<tabVars, mapVars, authVars, component, backend, nextId>>

\* deleteEvent, up to its await
DeleteEvent ==
    /\ Hook /\ PageCanCall
    /\ \E id \in ShownIds :
          calls' = Append(calls, Call("deleteEvent", id, NoEvent, NoRequest, "view"))
    /\ viewLoading' = TRUE
    /\ viewError' = NoError
    /\ UNCHANGED <<tabVars, mapVars, authVars, component, backend, nextId, events, dialog, applied>>

\* deleteEvent after its await
DeleteEventDone ==
    \E i \in DOMAIN calls :
        /\ Resumes(i, "deleteEvent")
        /\ IF Answer(i).ok
           THEN /\ events' = removeEvent(events, calls[i].id)
                /\ viewError' = viewError
           ELSE /\ events' = events
                /\ viewError' = Answer(i).message
        /\ viewLoading' = FALSE
        /\ calls' = Applied(i)
        /\ applied' = Append(applied, i)
    /\ UNCHANGED <<tabVars, mapVars, authVars, component, backend, nextId, dialog>>

\* handleQuickComplete -> markTaskCompleted, up to its await
MarkTaskCompleted ==
    /\ Hook /\ PageCanCall
    /\ \E id \in ShownIds :
          calls' = Append(calls, Call("markTaskCompleted", id, NoEvent, NoRequest, "view"))
    /\ UNCHANGED <<tabVars, mapVars, authVars, component, backend, nextId, events, viewLoading,
                   viewError, dialog, applied>>

\* markTaskCompleted after its await: a failure is logged only
MarkTaskCompletedDone ==
    \E i \in DOMAIN calls :
        /\ Resumes(i, "markTaskCompleted")
        /\ events' = IF Answer(i).ok
                     THEN replaceEvent(events, calls[i].id,
                             transformBackendTaskToCalendarEvent(Answer(i).task))
                     ELSE events
        /\ calls' = Applied(i)
        /\ applied' = Append(applied, i)
    /\ UNCHANGED <<tabVars, mapVars, authVars, component, backend, nextId, viewLoading,
                   viewError, dialog>>

\* ---- the task dialogs and their hosts ----

OpenDialog(id, date) ==
    [open |-> TRUE, editing |-> id, date |-> date,
     submitError |-> NoError, isSubmitting |-> FALSE]

\* handleAddEvent(date): the dialog opens for a new task on the clicked day
HandleAddEvent ==
    /\ component \in {"AdaptedCalendarContainer", "CalendarContainer"}
    /\ ~dialog.open
    /\ \E date \in Days : dialog' = OpenDialog(NoId, date)
    /\ UNCHANGED <<tabVars, mapVars, authVars, component, backend, nextId, events, viewLoading,
                   viewError, calls, applied>>

\* handleEventClick(event): the dialog opens on a shown event
HandleEventClick ==
    /\ component \in {"AdaptedCalendarContainer", "CalendarContainer"}
    /\ ~dialog.open
    /\ \E i \in DOMAIN events : dialog' = OpenDialog(events[i].id, events[i].date)
    /\ UNCHANGED <<tabVars, mapVars, authVars, component, backend, nextId, events, viewLoading,
                   viewError, calls, applied>>

\* onClose from Cancel or the X button (disabled while submitting)
DialogCancel ==
    /\ dialog.open /\ ~dialog.isSubmitting
    /\ dialog' = ClosedDialog
    /\ UNCHANGED <<tabVars, mapVars, authVars, component, backend, nextId, events, viewLoading,
                   viewError, calls, applied>>

\* TaskEventDialog.handleSave -> onSave = handleSaveEvent -> addEvent or
\* updateEvent, up to the hook's await (the button needs a title and no
\* submission under way; the dialog is rendered only with a date)
HandleSave ==
    /\ Hook /\ CanCall
    /\ dialog.open /\ ~dialog.isSubmitting
    /\ \E f \in TaskEventForms :
          LET eventData == eventDataOf(f, dialog.date)
              payload == transformCalendarEventToBackendTask(eventData)
          IN  calls' = Append(calls,
                 IF dialog.editing # NoId
                 THEN Call("updateEvent", dialog.editing, eventData, payload, "dialog")
                 ELSE Call("addEvent", NoId, eventData, payload, "dialog"))
    /\ dialog' = [dialog EXCEPT !.isSubmitting = TRUE, !.submitError = NoError]
    /\ viewLoading' = TRUE
    /\ viewError' = NoError
    /\ UNCHANGED <<tabVars, mapVars, authVars, component, backend, nextId, events, applied>>

\* ---- CalendarContainer and ComprehensiveTaskDialog (over taskAPI) ----

\* what the user may have entered in ComprehensiveTaskDialog when saving
ComprehensiveForms ==
    {f \in [priority : {2}, status : {"completed"},
             deadline : {Undefined, DateOf(MaxDay * MinutesPerDay)},
             specificTime : {Undefined, [hh |-> 9, mm |-> 30]}] :
        f.specificTime # Undefined <=> f.deadline # Undefined}

\* ComprehensiveTaskDialog.handleSave: taskData
taskDataOf(f) ==
    [name |-> "Write report", priority |-> f.priority, urgency |-> f.priority,
     status |-> f.status,
     deadline |->
        IF f.deadline = Undefined THEN Undefined
        ELSE IF f.specificTime # Undefined
        THEN ToISOString(SetHours(f.deadline, f.specificTime.hh, f.specificTime.mm))
        ELSE ToISOString(f.deadline),
     specific_time |->
        IF f.deadline # Undefined /\ f.specificTime # Undefined
        THEN ToISOString(SetHours(f.deadline, f.specificTime.hh, f.specificTime.mm))
        ELSE Undefined]

\* useEffect on mount, handleRefreshEvents, Retry: loadTasks up to its await
LoadTasks ==
    /\ component = "CalendarContainer" /\ PageCanCall
    /\ viewLoading' = TRUE
    /\ viewError' = NoError
    /\ calls' = Append(calls, Call("loadTasks", NoId, NoEvent, NoRequest, "view"))
    /\ UNCHANGED <<tabVars, mapVars, authVars, component, backend, nextId, events, dialog, applied>>

\* taskAPI.loadTasks: data.tasks, and [] for a request that failed
loadTasksResult(a) == IF a.ok THEN a.tasks ELSE <<>>

\* loadTasks after its await
LoadTasksDone ==
    \E i \in DOMAIN calls :
        /\ Resumes(i, "loadTasks")
        /\ events' = [k \in DOMAIN loadTasksResult(Answer(i)) |->
                        transformTaskToEvent(loadTasksResult(Answer(i))[k])]
        /\ viewLoading' = FALSE
        /\ calls' = Applied(i)
        /\ applied' = Append(applied, i)
    /\ UNCHANGED <<tabVars, mapVars, authVars, component, backend, nextId, viewError, dialog>>

\* ComprehensiveTaskDialog.handleSave up to taskAPI.createTask / updateTask
ComprehensiveHandleSave ==
    /\ component = "CalendarContainer" /\ CanCall
    /\ dialog.open /\ ~dialog.isSubmitting
    /\ \E f \in ComprehensiveForms :
          calls' = Append(calls,
             IF dialog.editing # NoId
             THEN Call("updateTask", dialog.editing, f, taskDataOf(f), "dialog")
             ELSE Call("createTask", NoId, f, taskDataOf(f), "dialog"))
    /\ dialog' = [dialog EXCEPT !.isSubmitting = TRUE, !.submitError = NoError]
    /\ UNCHANGED <<tabVars, mapVars, authVars, component, backend, nextId, events, viewLoading,
                   viewError, applied>>

\* ComprehensiveTaskDialog.handleSave after its await: onClose(), or the
\* message of the error taskAPI threw
ComprehensiveHandleSaveDone ==
    \E i \in DOMAIN calls :
        /\ calls[i].handler \in {"createTask", "updateTask"}
        /\ calls[i].phase = "answered"
        /\ dialog' = IF Answer(i).ok THEN ClosedDialog
                     ELSE [dialog EXCEPT !.submitError = Answer(i).message,
                                         !.isSubmitting = FALSE]
        /\ calls' = Applied(i)
        /\ applied' = Append(applied, i)
    /\ UNCHANGED <<tabVars, mapVars, authVars, component, backend, nextId, events, viewLoading,
                   viewError>>

\* ---- Dashboard (over taskAPI) ----

\* useEffect on mount: fetchTasks up to its await
FetchTasks ==
    /\ component = "Dashboard" /\ PageCanCall
    /\ viewLoading' = TRUE
    /\ calls' = Append(calls, Call("fetchTasks", NoId, NoEvent, NoRequest, "view"))
    /\ UNCHANGED <<tabVars, mapVars, authVars, component, backend, nextId, events, viewError,
                   dialog, applied>>

\* fetchTasks after its await
FetchTasksDone ==
    \E i \in DOMAIN calls :
        /\ Resumes(i, "fetchTasks")
        /\ events' = [k \in DOMAIN loadTasksResult(Answer(i)) |->
                        taskToCalendarEvent(loadTasksResult(Answer(i))[k])]
        /\ viewLoading' = FALSE
        /\ calls' = Applied(i)
        /\ applied' = Append(applied, i)
    /\ UNCHANGED <<tabVars, mapVars, authVars, component, backend, nextId, viewError, dialog>>

CalNext ==
    \/ BackendAnswer
    \/ FetchEvents
    \/ FetchEventsDone
    \/ AddEvent
    \/ AddEventDone
    \/ UpdateEvent
    \/ UpdateEventDone
    \/ DeleteEvent
    \/ DeleteEventDone
    \/ MarkTaskCompleted
    \/ MarkTaskCompletedDone
    \/ HandleAddEvent
    \/ HandleEventClick
    \/ DialogCancel
    \/ HandleSave
    \/ LoadTasks
    \/ LoadTasksDone
    \/ ComprehensiveHandleSave
    \/ ComprehensiveHandleSaveDone
    \/ FetchTasks
    \/ FetchTasksDone

-----------------------------------------------------------------------------
(* Browser tabs over one localStorage: GoogleAuth (initializeAuth draft) and
   the API clients *)

MaxTabs == 2           \* browser tabs open on the application
MaxApiRequests == 1    \* API requests sent in one behaviour

TabIds == 1..MaxTabs
ClosedTab == [pc |-> "closed", user |-> NoUser, authToken |-> Null, removed |-> "no"]
ApiClients == {"calendarApi", "taskAPI"}

\* AdaptedCalendarAPI.updateAuthToken: this.authToken
updateAuthToken(ls) == ls[TOKEN_KEY]

\* AdaptedCalendarAPI.request sending the token it read earlier
requestAuthorizationCached(authToken, ls) ==
    IF Truthy(authToken) THEN authToken ELSE Null

\* AdaptedCalendarAPI.request: updateAuthToken(), then the Authorization
\* header's bearer token (Null: no header)
requestAuthorization(authToken, ls) ==
    LET fresh == updateAuthToken(ls)
    IN  IF Truthy(fresh) THEN fresh ELSE Null

\* TaskAPI.js getAuthHeaders: the Authorization header's bearer token
getAuthHeaders(ls) ==
    LET token == ls[TOKEN_KEY]
    IN  IF Truthy(token) THEN token ELSE Null

\* the browser holds nothing, or the token of an earlier visit
TabInit ==
    /\ tabs = [t \in TabIds |-> ClosedTab]
    /\ apiRequests = <<>>
    /\ localStorage \in
          {[k \in Keys |-> Null],
           [k \in Keys |-> CASE k = TOKEN_KEY -> Tok(1)
                             [] k = TOKEN_TIMESTAMP_KEY -> NumToString(FirstLoadTime)
                             [] OTHER -> Null]}
    /\ now = FirstLoadTime
    /\ sessionActive \in BOOLEAN
    \* the mapping, the single resolver and the calendar views are at rest
    /\ task = CHOOSE t \in BackendTasks : TRUE
    /\ event = NoEvent
    /\ request = NoRequest
    /\ form = NoForm
    /\ origin = "parked"
    /\ urlToken = Null
    /\ draft = "initializeAuth"
    /\ host = "standalone"
    /\ pc = "done"
    /\ user = NoUser
    /\ loading = FALSE
    /\ error = NoError
    /\ authMethod = "null"
    /\ isAuthenticated = FALSE
    /\ indexUser = NoUser
    /\ atInit = NoSnapshot
    /\ requests = <<>>
    /\ apiSignOut = "idle"
    /\ signedOut = "none"
    /\ loads = 0
    /\ component = "unmounted"
    /\ backend = <<>>
    /\ nextId = 1
    /\ events = <<>>
    /\ viewLoading = FALSE
    /\ viewError = "null"
    /\ calls = <<>>
    /\ dialog = [open |-> FALSE]
    /\ applied = <<>>

TabFrame ==
    UNCHANGED <<mapVars, calVars, urlToken, draft, host, pc, user, loading, error,
                authMethod, isAuthenticated, indexUser, atInit, requests,
                apiSignOut, signedOut, loads, now>>

\* the tab loads the page (opened, or back from the sign-in redirect with a
\* token in its URL): calendarApi is constructed, then initializeAuth runs
\* up to its first await
TabLoad(t) ==
    /\ tabs[t].pc \in {"closed", "idle"} /\ tabs[t].user = NoUser
    /\ \E url \in {Null} \cup Tokens :
          IF Truthy(url)
          THEN /\ localStorage' = processNewTokenStore(localStorage, url, now)
               /\ tabs' = [tabs EXCEPT ![t].pc = "url_verify",
                                       ![t].authToken = updateAuthToken(localStorage)]
          ELSE LET r == getValidStoredToken(localStorage, now)
               IN  /\ localStorage' = r.ls
                   /\ tabs' = [tabs EXCEPT
                          ![t].pc = IF r.token # Null THEN "stored_verify"
                                    ELSE "session_verify",
                          ![t].authToken = updateAuthToken(localStorage)]
    /\ UNCHANGED <<sessionActive, apiRequests>>
    /\ TabFrame

\* verifyTokenAuth, response.ok
TabVerifyTokenAuthOk(t) ==
    /\ tabs[t].pc \in {"url_verify", "stored_verify"}
    /\ tabs' = [tabs EXCEPT ![t].pc = "idle", ![t].user = createUserData("token")]
    /\ UNCHANGED <<localStorage, sessionActive, apiRequests>>
    /\ TabFrame

\* verifyTokenAuth returned false: processNewToken cleans up and ends;
\* for the stored token initializeAuth goes on to the session
TabVerifyTokenAuthFailed(t) ==
    /\ tabs[t].pc \in {"url_verify", "stored_verify"}
    /\ IF tabs[t].pc = "url_verify"
       THEN /\ localStorage' = cleanupStoredTokens(localStorage)
            /\ tabs' = [tabs EXCEPT ![t].pc = "idle", ![t].removed = "processNewToken"]
       ELSE /\ localStorage' = localStorage
            /\ tabs' = [tabs EXCEPT ![t].pc = "session_verify"]
    /\ UNCHANGED <<sessionActive, apiRequests>>
    /\ TabFrame

\* verifySessionAuth returned
TabVerifySessionAuth(t) ==
    /\ tabs[t].pc = "session_verify"
    /\ \E ok \in BOOLEAN :
          /\ ok => sessionActive
          /\ tabs' = [tabs EXCEPT ![t].pc = "idle",
                         ![t].user = IF ok THEN createUserData("session") ELSE NoUser]
    /\ UNCHANGED <<localStorage, sessionActive, apiRequests>>
    /\ TabFrame

\* GoogleAuth.handleSignOut up to the logout request
TabHandleSignOut(t) ==
    /\ tabs[t].pc = "idle" /\ tabs[t].user # NoUser
    /\ tabs' = [tabs EXCEPT ![t].pc = "logout"]
    /\ UNCHANGED <<localStorage, sessionActive, apiRequests>>
    /\ TabFrame

\* handleSignOut that keeps its user record
TabHandleSignOutKeepsUser(t) ==
    /\ tabs[t].pc = "logout"
    /\ \E ok \in BOOLEAN : sessionActive' = (sessionActive /\ ~ok)
    /\ localStorage' = cleanupStoredTokens(localStorage)
    /\ tabs' = [tabs EXCEPT ![t].pc = "idle"]
    /\ UNCHANGED apiRequests
    /\ TabFrame

\* GoogleAuth.handleSignOut after the logout request returned or threw
TabHandleSignOutDone(t) ==
    /\ tabs[t].pc = "logout"
    /\ \E ok \in BOOLEAN : sessionActive' = (sessionActive /\ ~ok)
    /\ localStorage' = cleanupStoredTokens(localStorage)
    /\ tabs' = [tabs EXCEPT ![t].pc = "idle", ![t].user = NoUser,
                            ![t].removed = "signOut"]
    /\ UNCHANGED apiRequests
    /\ TabFrame

\* a view of the signed-in tab sends a request through calendarApi.request
\* or through TaskAPI.js
TabApiRequest(t) ==
    /\ tabs[t].pc = "idle" /\ tabs[t].user # NoUser
    /\ Len(apiRequests) < MaxApiRequests
    /\ \E client \in ApiClients :
          /\ apiRequests' = Append(apiRequests,
                [tab |-> t, client |-> client,
                 authorization |->
                    IF client = "calendarApi"
                    THEN requestAuthorization(tabs[t].authToken, localStorage)
                    ELSE getAuthHeaders(localStorage),
                 stored |-> localStorage[TOKEN_KEY],
                 cached |-> tabs[t].authToken])
          /\ tabs' = [tabs EXCEPT ![t].authToken =
                         IF client = "calendarApi" THEN updateAuthToken(localStorage)
                         ELSE @]
    /\ UNCHANGED <<localStorage, sessionActive>>
    /\ TabFrame

TabNext ==
    \E t \in TabIds :
        \/ TabLoad(t)
        \/ TabVerifyTokenAuthOk(t)
        \/ TabVerifyTokenAuthFailed(t)
        \/ TabVerifySessionAuth(t)
        \/ TabHandleSignOut(t)
        \/ TabHandleSignOutDone(t)
        \/ TabApiRequest(t)

-----------------------------------------------------------------------------
(* Specifications *)

SpecMap  == MapInit /\ [][MapNext]_vars
SpecAuth == AuthInit /\ [][AuthNext]_vars
SpecCal  == CalInit /\ [][CalNext]_vars
SpecTabs == TabInit /\ [][TabNext]_vars

\* the mount effect runs, and every request sent to the backend returns a
\* response or fails
Mounts == InitializeAuth \/ CheckExistingAuth
Responds ==
    \/ VerifyTokenAuthOk \/ ProcessNewTokenFailed \/ StoredTokenFailed
    \/ VerifySessionAuthOk \/ VerifySessionAuthFailed
    \/ VerifyTokenOk \/ VerifyTokenFailed
    \/ CheckSessionAuthOk \/ CheckSessionAuthFailed
SpecAuthFair == SpecAuth /\ WF_vars(Mounts) /\ WF_vars(Responds)

-----------------------------------------------------------------------------
(* Properties of the mapping (checked under SpecMap) *)

\* The tables as the specification states them
SpecDisplayPriority == 1 :> "urgent" @@ 2 :> "high" @@ 3 :> "medium"
                       @@ 4 :> "medium" @@ 5 :> "low"
SpecWritePriority == "urgent" :> 1 @@ "high" :> 2 @@ "medium" :> 3 @@ "low" :> 5
SpecDisplayStatus(s) == IF s = "pending" THEN "not_started" ELSE s

Mapped == origin \in {"adapter", "container"}

\* C1: for every backend priority 1..5 the event mapped from a backend task
\* (by the adapter and by the calendar container) has display priority
\* urgent, high, medium, medium, low respectively.
C1_DisplayPriority ==
    (Mapped /\ task.priority \in BackendPriorities)
        => event.priority = SpecDisplayPriority[task.priority]

\* C1 witness: a task {priority: 4, status: "pending"} mapped by the adapter
\* to {priority: "medium", status: "not_started"}.
C1_Witness ==
    /\ origin = "adapter"
    /\ task.priority = 4 /\ task.status = "pending"
    /\ event.priority = "medium" /\ event.status = "not_started"

\* C2: every display priority is written back as 1, 2, 3, 5 (urgent, high,
\* medium, low), by the adapter's payload and by the task dialog; backend
\* priority 4 comes back as 3 and 1, 2, 3, 5 come back as themselves.
C2_WriteBackPriority ==
    /\ (request # NoRequest /\ event.priority \in DisplayPriorities)
          => request.priority = SpecWritePriority[event.priority]
    /\ (request # NoRequest /\ origin = "adapter"
        /\ task.priority \in BackendPriorities)
          => request.priority = IF task.priority = 4 THEN 3 ELSE task.priority
    /\ (form # NoForm /\ task.priority \in BackendPriorities)
          => /\ form.priority = SpecWritePriority[event.priority]
             /\ form.priority = IF task.priority = 4 THEN 3 ELSE task.priority

\* C2 witness: backend priority 4 read by the adapter and written back as 3.
C2_Witness ==
    /\ origin = "adapter" /\ task.priority = 4
    /\ request # NoRequest /\ request.priority = 3

\* C3: the display status of a backend status is the status itself, except
\* pending, shown as not_started; the write-direction status table (and the
\* task dialog's) gives the backend status back.
C3_StatusTables ==
    Mapped =>
        /\ event.status = SpecDisplayStatus(task.status)
        /\ writeStatusMap(event.status) = task.status
        /\ form # NoForm => form.status = task.status

\* C3 witness: a pending task shown as not_started and opened in the dialog
\* as pending.
C3_Witness ==
    /\ origin = "container" /\ task.status = "pending"
    /\ event.status = "not_started"
    /\ form # NoForm /\ form.status = "pending"

\* The date a payload schedules the task at: its specific time, else its deadline
PayloadDate(r) ==
    IF r.specific_time # Undefined THEN NewDate(r.specific_time)
    ELSE NewDate(r.deadline)

\* C9: the event mapped from a backend task has title, date, priority and
\* status, and the write payload built from it carries the title (as name),
\* the date, the priority and the status.
C9_PayloadCarriesAll ==
    (origin = "adapter" /\ request # NoRequest) =>
        /\ event.title # UndefinedStr /\ event.date # Undefined
        /\ event.priority # UndefinedStr /\ event.status # UndefinedStr
        /\ request.name = event.title
        /\ request.deadline # Undefined
        /\ event.date = PayloadDate(request)
        /\ request.priority = SpecWritePriority[event.priority]
        /\ "status" \in DOMAIN request
        /\ request.status = writeStatusMap(event.status)

\* C10: a payload built from an event without priority carries priority 3
\* and urgency 3; built from an event with a priority, both carry the
\* written-back value of that priority.
C10_PayloadPriorityDefault ==
    request # NoRequest =>
        IF event.priority = UndefinedStr
        THEN request.priority = 3 /\ request.urgency = 3
        ELSE /\ request.priority = SpecWritePriority[event.priority]
             /\ request.urgency = SpecWritePriority[event.priority]

\* C10 witness: a caller's event without priority, written with priority 3
\* and urgency 3.
C10_Witness ==
    /\ origin = "user" /\ event.priority = UndefinedStr
    /\ request # NoRequest /\ request.priority = 3 /\ request.urgency = 3

\* The display date as the specification states it
SpecDisplayDate(t) ==
    IF t.specific_time # Undefined THEN NewDate(t.specific_time)
    ELSE IF t.deadline # Undefined THEN NewDate(t.deadline)
    ELSE NewDate(t.created_at)

\* C11: the display date of an event derived from a backend task (by the
\* adapter, by the calendar container and by taskUtils.taskToCalendarEvent)
\* is the task's specific time when it has one, else its deadline when it
\* has one, else its creation time.
C11_DisplayDateRule ==
    origin \in {"adapter", "container", "taskUtils"}
        => event.date = SpecDisplayDate(task)

-----------------------------------------------------------------------------
(* Properties of the authentication resolver (checked under SpecAuth) *)

\* An initialization has started on this mount and its first request is out
InitPhase == pc # "mount" /\ atInit # NoSnapshot

\* The age of the stored token when the initialization started (NaN without
\* a numeric timestamp)
StoredAge == Minus(atInit.now, parseInt(atInit.timestamp))

StoredAtInit == Truthy(atInit.token) /\ Truthy(atInit.timestamp)
AllKeysRemoved == \A k \in Keys : localStorage[k] = Null
RequestIndexes == 1..Len(requests)

C5_UrlTokenFirst ==
    (InitPhase /\ Truthy(atInit.url)) =>
        /\ requests # <<>>
        /\ requests[1].via = "url"
        /\ requests[1].token = atInit.url
        /\ requests[1].stored = atInit.url
        /\ \A i \in RequestIndexes :
              i > 1 => /\ requests[i].via \in {"stored", "session"}
                       /\ requests[1].outcome \in FailureOutcomes
        /\ (user # NoUser /\ signedOut = "none" /\ requests[1].outcome = "ok")
              => Len(requests) = 1

\* C5 witness: the URL token authenticates the user although another token
\* was stored and a server session is active.
C5_Witness ==
    /\ InitPhase /\ pc = "done"
    /\ Truthy(atInit.url) /\ StoredAtInit /\ atInit.token # atInit.url
    /\ sessionActive
    /\ user # NoUser /\ Len(requests) = 1 /\ requests[1].outcome = "ok"
    /\ localStorage[TOKEN_KEY] = atInit.url

\* C6: no URL token and a stored token 8 days old: the initialization removes
\* the stored keys, its first and only request is the session check, and no
\* request carries the stored token.
C6_EightDaysOld ==
    (InitPhase /\ ~Truthy(atInit.url) /\ StoredAtInit
     /\ GreaterEq(StoredAge, 8 * OneDayMs)) =>
        /\ AllKeysRemoved
        /\ Len(requests) = 1
        /\ requests[1].via = "session"
        /\ requests[1].token = Null

\* C6 witness: that initialization, ended by the session check's answer.
C6_Witness ==
    /\ InitPhase /\ pc = "done" /\ draft = "initializeAuth"
    /\ ~Truthy(atInit.url) /\ StoredAtInit
    /\ ~StoredAge.nan /\ StoredAge.n = 8 * OneDayMs
    /\ AllKeysRemoved
    /\ Len(requests) = 1 /\ requests[1].via = "session"
    /\ requests[1].outcome = "rejected"

AllRejected ==
    /\ requests # <<>>
    /\ \A i \in RequestIndexes : requests[i].outcome = "rejected"

InitEnded == InitPhase /\ pc = "done" /\ signedOut = "none"

\* C8 as stated: when every verification attempted is rejected by the
\* backend, the initialization ends unauthenticated with no error message.
C8_RejectedLeavesNoError ==
    (InitEnded /\ AllRejected) => (user = NoUser /\ error = NoError)

\* C8 amended: when every verification attempted is rejected, the
\* initialization ends unauthenticated, and the error message is set exactly
\* when a URL token was rejected (initializeAuth) or any token was rejected
\* (checkExistingAuth).
C8_RejectedErrorOnlyForTokens ==
    (InitEnded /\ AllRejected) =>
        /\ user = NoUser
        /\ error # NoError <=>
              \/ draft = "initializeAuth" /\ requests[1].via = "url"
              \/ draft = "checkExistingAuth"
                 /\ \E i \in RequestIndexes : requests[i].via \in {"url", "stored"}

\* C8 witness: initializeAuth, stored token rejected, session rejected: no
\* user and no error message.
C8_Witness ==
    /\ InitEnded /\ AllRejected /\ draft = "initializeAuth"
    /\ Len(requests) = 2
    /\ requests[1].via = "stored" /\ requests[2].via = "session"
    /\ user = NoUser /\ error = NoError

\* A stored token was sent for verification and the backend rejected it
StoredTokenRejected(i) ==
    /\ requests[i].via = "stored"
    /\ requests[i].outcome \in {"rejected", "rejected_unreadable"}

\* C15: whenever the verification of a stored token is rejected by the
\* backend, no key of local storage holds that token any more once the
\* initialization has gone on, and the initialization ends with no user.
C15_RejectedStoredTokenCleared ==
    InitPhase =>
        \A i \in RequestIndexes :
            StoredTokenRejected(i) =>
                /\ \A k \in Keys : localStorage[k] # requests[i].token
                /\ InitEnded => user = NoUser

\* C19: with a token in the URL at initialization, the token and a timestamp
\* are in local storage when the verification request is sent, that request
\* verifies the token, and once the initialization has ended the URL does
\* not carry the token.
C19_UrlTokenPersistedVerifiedCleared ==
    (InitPhase /\ Truthy(atInit.url)) =>
        /\ requests # <<>>
        /\ requests[1].via = "url" /\ requests[1].token = atInit.url
        /\ requests[1].stored = atInit.url
        /\ requests[1].timestamp = NumToString(atInit.now)
        /\ InitEnded => urlToken = Null

\* The initialization has a verification that succeeded
Succeeded == requests # <<>> /\ requests[Len(requests)].outcome = "ok"

\* A success is the last request of its initialization, every request before
\* it failed, and it left a user record marked with the path that succeeded.
OneUserNoLaterPath ==
    /\ \A i \in RequestIndexes :
          requests[i].outcome = "ok" => i = Len(requests)
    /\ \A i \in RequestIndexes :
          i < Len(requests) => requests[i].outcome \in FailureOutcomes
    /\ (Succeeded /\ signedOut = "none") =>
          /\ user # NoUser
          /\ user.tokenValid = (requests[Len(requests)].via \in {"url", "stored"})
          /\ user.sessionActive = (requests[Len(requests)].via = "session")
          /\ host = "index" => indexUser = user
    /\ user # NoUser => Succeeded

\* The tag the specification gives the path of the last request
SpecMethodTag ==
    IF requests[Len(requests)].via = "session" THEN "session" ELSE "token"

\* C20 as stated: the first verification that succeeds yields one user
\* record tagged "token" after a token verification and "session" after the
\* session verification, and no later path is attempted.
C20_FirstSuccessTagged ==
    InitPhase =>
        /\ OneUserNoLaterPath
        /\ (Succeeded /\ signedOut = "none") => user.loginMethod = SpecMethodTag

\* C20 amended: as stated for initializeAuth, whose user record and
\* authMethod carry the tag of the path; in checkExistingAuth the record is
\* marked with the path by tokenValid / sessionActive and its loginMethod
\* is the login_method of the backend's answer.
C20_FirstSuccessTaggedByInitializeAuth ==
    InitPhase =>
        /\ OneUserNoLaterPath
        /\ (Succeeded /\ signedOut = "none" /\ draft = "initializeAuth") =>
              /\ user.loginMethod = SpecMethodTag
              /\ authMethod = SpecMethodTag

\* C20 witness: initializeAuth, the stored token fails and the session
\* verification succeeds: one user record tagged "session".
C20_Witness ==
    /\ InitEnded /\ draft = "initializeAuth"
    /\ Len(requests) = 2
    /\ requests[1].via = "stored" /\ requests[1].outcome = "rejected"
    /\ requests[2].via = "session" /\ requests[2].outcome = "ok"
    /\ user # NoUser /\ user.loginMethod = "session" /\ authMethod = "session"

-----------------------------------------------------------------------------
(* Properties of the calendar views (checked under SpecCal) *)

\* The call whose answer was applied last, and what applying it left
LastApplied == applied[Len(applied)]
JustApplied(handlers) ==
    /\ applied # <<>>
    /\ calls[LastApplied].handler \in handlers
SucceededCall(i) == calls[i].answer.ok

\* addEvent has just added the task it created from an event that has a
\* name, no deadline and no specific time
CreatedWithoutDeadline ==
    /\ JustApplied({"addEvent"}) /\ SucceededCall(LastApplied)
    /\ calls[LastApplied].arg.title # UndefinedStr
    /\ calls[LastApplied].arg.deadline = Undefined
    /\ calls[LastApplied].arg.time = Undefined

NewEventDate == IF events = <<>> THEN Undefined ELSE events[Len(events)].date

\* C12 as stated: a task created with a name and no deadline is shown on its
\* creation time.
C12_NoDeadlineShowsCreationTime ==
    CreatedWithoutDeadline =>
        NewEventDate = NewDate(calls[LastApplied].answer.task.created_at)

\* C12 amended: a task created from an event with a name, no deadline and no
\* specific time is shown on its creation time when the event has no date,
\* and on the event's date otherwise (the date is sent as the deadline; the
\* task dialog always has a date).
C12_NoDateShowsCreationTime ==
    CreatedWithoutDeadline =>
        NewEventDate =
            IF calls[LastApplied].arg.date = Undefined
            THEN NewDate(calls[LastApplied].answer.task.created_at)
            ELSE calls[LastApplied].arg.date

\* C12 witness: the task dialog saved a new task with no deadline and no
\* time on a day that is not the creation time; the new event is on that day.
C12_Witness ==
    /\ CreatedWithoutDeadline
    /\ calls[LastApplied].from = "dialog"
    /\ NewEventDate = calls[LastApplied].arg.date
    /\ NewEventDate # NewDate(calls[LastApplied].answer.task.created_at)

\* the step applies the answer of call i
AppliesAnswer(i) ==
    /\ i \in DOMAIN calls
    /\ calls[i].phase = "answered"
    /\ calls'[i].phase = "applied"

\* C13: when a create or update request sent from a task dialog fails, the
\* dialog shows the failure's message and stays open; a dialog is closed
\* only by its Cancel or after a save that succeeded.
C13_FailedSaveStaysInDialog ==
    [][/\ \A i \in DOMAIN calls :
             (AppliesAnswer(i) /\ calls[i].from = "dialog" /\ ~calls[i].answer.ok)
                 => /\ dialog'.open
                    /\ dialog'.submitError = calls[i].answer.message
       /\ (dialog.open /\ ~dialog'.open)
             => \/ calls' = calls
                \/ \E i \in DOMAIN calls :
                      /\ AppliesAnswer(i)
                      /\ calls[i].from = "dialog" /\ calls[i].answer.ok]_vars

Fetches == {"fetchEvents", "loadTasks", "fetchTasks"}

\* C14: when a fetch of the task list fails, the view is left with an empty
\* list of events and the error banner (with its Retry) is shown.
C14_FailedFetchEmptyWithBanner ==
    [][\A i \in DOMAIN calls :
          (AppliesAnswer(i) /\ calls[i].handler \in Fetches /\ ~calls[i].answer.ok)
              => /\ events' = <<>>
                 /\ viewError' # NoError]_vars

Creations == {"addEvent", "createTask"}
Updates == {"updateEvent", "updateTask", "markTaskCompleted"}
Deletions == {"deleteEvent"}

\* the list after the step holds the result of call i
PatchedWith(i) ==
    CASE calls[i].handler \in Creations ->
            \E k \in DOMAIN events' :
                events'[k] = viewEvent(component, calls[i].answer.task)
      [] calls[i].handler \in Updates ->
            \A k \in DOMAIN events' :
                events'[k].id = calls[i].id
                    => events'[k] = viewEvent(component, calls[i].answer.task)
      [] calls[i].handler \in Deletions ->
            \A k \in DOMAIN events' : events'[k].id # calls[i].id

\* the step sends a fetch of the task list
Refetches ==
    /\ Len(calls') = Len(calls) + 1
    /\ calls'[Len(calls')].handler \in Fetches

\* C16: when a create, update, delete or toggle-status request has
\* succeeded, the handler that resumes with its answer patches the list of
\* events with the result or fetches the list again.
C16_MutationPatchedOrRefetched ==
    [][\A i \in DOMAIN calls :
          (/\ AppliesAnswer(i)
           /\ calls[i].handler \in Creations \cup Updates \cup Deletions
           /\ calls[i].answer.ok)
              => (PatchedWith(i) \/ Refetches)]_vars

\* two requests of the hook that update the same task, both answered with
\* the updated task and both applied
HookUpdates == {"updateEvent", "markTaskCompleted"}
BothApplied(i, j) ==
    /\ i # j
    /\ calls[i].handler \in HookUpdates /\ calls[j].handler \in HookUpdates
    /\ calls[i].id = calls[j].id
    /\ calls[i].phase = "applied" /\ calls[j].phase = "applied"
    /\ calls[i].answer.ok /\ calls[j].answer.ok

\* C17: of two updateEvent (or markTaskCompleted) requests for the same
\* task whose responses have both been applied, the one applied last
\* decides the entry of that task: it equals the event mapped from that
\* response, in whatever order the requests were sent and answered.
C17_LastResponseWins ==
    \A i, j \in DOMAIN calls :
        (BothApplied(i, j) /\ LastApplied = j)
            => \A k \in DOMAIN events :
                  events[k].id = calls[j].id
                      => events[k] =
                            transformBackendTaskToCalendarEvent(calls[j].answer.task)

\* C17 witness: two updateEvent requests for task 1 in flight at once; the
\* response of the second is applied first and the response of the first
\* last; the entry shows the first request's response, not what the
\* backend holds.
C17_Witness ==
    /\ Len(calls) >= 2 /\ BothApplied(1, 2)
    /\ calls[1].handler = "updateEvent" /\ calls[2].handler = "updateEvent"
    /\ applied = <<2, 1>>
    /\ \E k \in DOMAIN events :
          /\ events[k].id = calls[1].id
          /\ events[k] = transformBackendTaskToCalendarEvent(calls[1].answer.task)
          /\ events[k] # transformBackendTaskToCalendarEvent(calls[2].answer.task)
          /\ events[k] # transformBackendTaskToCalendarEvent(backend[calls[1].id])

\* the place of call i among the applied answers
Pos(i) == CHOOSE k \in DOMAIN applied : applied[k] = i

\* the response of update u was applied after the response of delete d,
\* both for one task and both successful
UpdateAfterDelete(u, d) ==
    /\ calls[u].handler \in HookUpdates /\ calls[d].handler = "deleteEvent"
    /\ calls[u].id = calls[d].id
    /\ calls[u].phase = "applied" /\ calls[d].phase = "applied"
    /\ calls[u].answer.ok /\ calls[d].answer.ok
    /\ Pos(d) < Pos(u)

\* a list that still held the task was applied after the response of delete d
StaleListAfter(d) ==
    \E f \in DOMAIN calls :
        /\ calls[f].handler = "fetchEvents" /\ calls[f].phase = "applied"
        /\ calls[f].answer.ok
        /\ \E k \in DOMAIN calls[f].answer.tasks :
              calls[f].answer.tasks[k].id = calls[d].id
        /\ Pos(d) < Pos(f)

\* C18: an update response applied after a delete response for the same
\* task can end with the view inconsistent with the backend: after such a
\* pair the backend no longer has the task, and the view shows an entry for
\* it only when a list fetched before the deletion was applied after the
\* delete response (the update patches an entry, it never adds one).
C18_UpdateAfterDelete ==
    \A u, d \in DOMAIN calls :
        UpdateAfterDelete(u, d)
            => /\ backend[calls[d].id] = NoTask
               /\ calls[d].id \in ShownIds => StaleListAfter(d)

\* C18 witness: the update response is the last applied, after the delete
\* response of the same task, and the view shows the updated entry of a
\* task the backend no longer has.
C18_Witness ==
    \E u, d \in DOMAIN calls :
        /\ UpdateAfterDelete(u, d) /\ LastApplied = u
        /\ backend[calls[u].id] = NoTask
        /\ \E k \in DOMAIN events :
              events[k] = transformBackendTaskToCalendarEvent(calls[u].answer.task)

\* the requests of the hook that raise its loading flag, not yet applied
LoadingHandlers == {"fetchEvents", "addEvent", "updateEvent", "deleteEvent"}
InFlight ==
    {i \in DOMAIN calls :
        calls[i].handler \in LoadingHandlers /\ calls[i].phase # "applied"}

\* C28: the loading flag of useCalendarEvents is true in every state in
\* which a fetchEvents, addEvent, updateEvent or deleteEvent request is in
\* flight, and false when none is.
C28_LoadingIffInFlight ==
    Hook => (viewLoading <=> InFlight # {})

\* C26: whatever the order in which the responses of fetchEvents, addEvent,
\* updateEvent, deleteEvent and markTaskCompleted are applied, the list of
\* events of useCalendarEvents never holds two events with the same id.
C26_NoDuplicateIds ==
    Hook => \A i, j \in DOMAIN events : i # j => events[i].id # events[j].id

\* the successful response of delete d has been applied
DeleteApplied(d) ==
    /\ calls[d].handler = "deleteEvent" /\ calls[d].phase = "applied"
    /\ calls[d].answer.ok

\* C27: once the successful response of a deleteEvent has been applied, the
\* response of a request that was sent before that delete and is applied
\* after it (a stale fetchEvents snapshot in particular) does not put an
\* event with the deleted id back in the list.
C27_DeletedStaysDeleted ==
    [][\A d, f \in DOMAIN calls :
          (DeleteApplied(d) /\ f < d /\ AppliesAnswer(f)
           /\ \A k \in DOMAIN events : events[k].id # calls[d].id)
              => \A k \in DOMAIN events' : events'[k].id # calls[d].id]_vars

\* C30: the response of updateEvent or markTaskCompleted changes only the
\* entries whose id is the target id: the list keeps its length and order
\* and every other entry; the list is unchanged when no entry has that id
\* and when the request failed.
C30_UpdateFrame ==
    [][\A i \in DOMAIN calls :
          (AppliesAnswer(i) /\ calls[i].handler \in HookUpdates)
              => /\ Len(events') = Len(events)
                 /\ \A k \in DOMAIN events :
                       /\ events'[k].id = events[k].id
                       /\ events[k].id # calls[i].id => events'[k] = events[k]
                 /\ ~calls[i].answer.ok => events' = events
                 /\ (\A k \in DOMAIN events : events[k].id # calls[i].id)
                       => events' = events]_vars

\* C30 witness: with tasks 1 and 2 in the list, the response of an update
\* of task 1 has been applied: the first entry is the updated task, the
\* second is task 2 as the backend holds it.
C30_Witness ==
    /\ JustApplied(HookUpdates) /\ SucceededCall(LastApplied)
    /\ calls[LastApplied].id = 1
    /\ Len(events) = 2
    /\ events[1] = transformBackendTaskToCalendarEvent(calls[LastApplied].answer.task)
    /\ events[1] # transformBackendTaskToCalendarEvent(InitialTask)
    /\ events[2].id = 2
    /\ events[2] = transformBackendTaskToCalendarEvent(backend[2])

-----------------------------------------------------------------------------
(* Further properties of the authentication resolver (checked under SpecAuth) *)

\* at initialization there was no token in the URL and a token only under
\* the legacy keys, inside the validity window
LegacyOnlyAtInit ==
    /\ InitPhase
    /\ ~Truthy(atInit.url)
    /\ atInit.ls[TOKEN_KEY] = Null /\ atInit.ls[TOKEN_TIMESTAMP_KEY] = Null
    /\ Truthy(atInit.ls[LEGACY_KEY]) /\ Truthy(atInit.ls[LEGACY_TIMESTAMP_KEY])
    /\ Less(Minus(atInit.now, parseInt(atInit.ls[LEGACY_TIMESTAMP_KEY])), maxAge)

\* C21: a token stored only under the legacy keys and inside the validity
\* window is migrated at initialization: the first verification request
\* carries it, sent when it and its timestamp were stored under the
\* deeptalk keys, and the legacy keys are removed.
C21_LegacyTokenMigrated ==
    LegacyOnlyAtInit =>
        /\ requests # <<>>
        /\ requests[1].via = "stored"
        /\ requests[1].token = atInit.ls[LEGACY_KEY]
        /\ requests[1].stored = atInit.ls[LEGACY_KEY]
        /\ requests[1].timestamp = atInit.ls[LEGACY_TIMESTAMP_KEY]
        /\ localStorage[LEGACY_KEY] = Null
        /\ localStorage[LEGACY_TIMESTAMP_KEY] = Null

\* how an initialization can end
Outcomes ==
    {o \in {"authenticated", "unauthenticated", "unauthenticated with error"} :
        CASE o = "authenticated" -> user # NoUser
          [] o = "unauthenticated" -> user = NoUser /\ error = NoError
          [] o = "unauthenticated with error" -> user = NoUser /\ error # NoError}
Resolved == pc = "done" /\ ~loading /\ Cardinality(Outcomes) = 1

\* C22: when every request to the backend returns a response or fails,
\* every initialization (the first mount, a page load, the mount after a
\* sign-out) eventually ends with the loading state left and the resolver
\* in exactly one of authenticated, unauthenticated, unauthenticated with
\* an error message.
C22_InitializationResolves == (pc = "mount") ~> Resolved

\* C22 witness: an initialization whose stored token and session were both
\* refused has ended, not loading, unauthenticated, without a message.
C22_Witness ==
    /\ InitEnded /\ ~loading
    /\ Len(requests) = 2
    /\ requests[1].via = "stored" /\ requests[1].outcome \in FailureOutcomes
    /\ requests[2].via = "session" /\ requests[2].outcome \in FailureOutcomes
    /\ Outcomes = {"unauthenticated"}

\* the resolver was mounted again by the sign-out from the header of the
\* main application, in the same page load
MountedAfterIndexSignOut == atInit # NoSnapshot /\ atInit.after = "Index"

\* C23: after a sign-out from the header of the main application the user
\* record is discarded and, until the page is loaded again by a new
\* sign-in, the application stays unauthenticated: the resolver mounted by
\* the sign-out never hands a user to the application.
C23_StaysSignedOut ==
    /\ signedOut = "Index" => (~isAuthenticated /\ indexUser = NoUser /\ user = NoUser)
    /\ MountedAfterIndexSignOut => (~isAuthenticated /\ indexUser = NoUser /\ user = NoUser)

\* the stored timestamp found at initialization is missing or no number
NoUsableTimestamp == ~Truthy(atInit.timestamp) \/ parseInt(atInit.timestamp).nan

\* C29: a stored token is sent to the verify endpoint only if its stored
\* timestamp exists, parses to a number and gives an age below 7 days; a
\* stored token whose timestamp is missing or does not parse is never
\* verified and is purged.
C29_TimestampGuardsVerification ==
    InitPhase =>
        /\ \A i \in RequestIndexes :
              requests[i].via = "stored"
                  => /\ ~NoUsableTimestamp
                     /\ Less(StoredAge, maxAge)
        /\ (~Truthy(atInit.url) /\ Truthy(atInit.token) /\ NoUsableTimestamp)
              => /\ localStorage[TOKEN_KEY] = Null
                 /\ localStorage[LEGACY_KEY] = Null

-----------------------------------------------------------------------------
(* Properties of the API requests and of the tabs (checked under SpecTabs) *)

\* C25: every API request carries an Authorization: Bearer header exactly
\* when localStorage holds a deeptalk_token when the request is made, and
\* the header carries the stored value; a request made after the token was
\* cleared carries no token.
C25_BearerIffStored ==
    \A i \in DOMAIN apiRequests :
        /\ (apiRequests[i].authorization # Null) <=> Truthy(apiRequests[i].stored)
        /\ apiRequests[i].authorization # Null
              => apiRequests[i].authorization = apiRequests[i].stored

\* C25 witness: calendarApi, which had read a token when it was
\* constructed, sends a request after the token was cleared: no header.
C25_Witness ==
    \E i \in DOMAIN apiRequests :
        /\ apiRequests[i].client = "calendarApi"
        /\ Truthy(apiRequests[i].cached)
        /\ apiRequests[i].stored = Null
        /\ apiRequests[i].authorization = Null

\* tab t holds a user record from a verified token and the token is gone
TokenUserWithoutToken(t) ==
    /\ tabs[t].user # NoUser /\ tabs[t].user.tokenValid
    /\ localStorage[TOKEN_KEY] = Null

\* C24: two tabs over the persisted token are not coordinated: a tab keeps
\* its authenticated user record when the token it was verified with is
\* deleted, which only another tab does (by its sign-out or by the cleanup
\* of a token it failed to verify).
C24_TokenDeletedByOtherTab ==
    \A t \in TabIds :
        TokenUserWithoutToken(t)
            => \E u \in TabIds \ {t} : tabs[u].removed # "no"

\* C24 witness: one tab has signed out and deleted the persisted token; the
\* other tab still holds its authenticated user record and has sent an API
\* request without a bearer token.
C24_Witness ==
    \E a, b \in TabIds :
        /\ a # b
        /\ tabs[a].removed = "signOut" /\ tabs[a].user = NoUser
        /\ TokenUserWithoutToken(b)
        /\ \E i \in DOMAIN apiRequests :
              /\ apiRequests[i].tab = b
              /\ apiRequests[i].stored = Null
              /\ apiRequests[i].authorization = Null

====
